---- MODULE Spec2Model ----
(***************************************************************************)
(* Model of the DocumentSearch / FindInProject plugin:                     *)
(*   - the scan session: FileSearcherThread.run (src/filesearcher.py)      *)
(*     against FindInProject.display_search_results (src/FindInProject.py) *)
(*     over one queue.Queue;                                               *)
(*   - the indexing threads started by FindInProject.run and joined by     *)
(*     FindInProject.run_search;                                           *)
(*   - pagerank.Graph and the construction of pagerank.PageRank.           *)
(* Each part has its own specification; the variables of the other parts   *)
(* are held at their initial values.                                       *)
(***************************************************************************)
EXTENDS Integers, Sequences, FiniteSets, TLC

\* ------------------------------------------------------------------ bounds
MaxPaths == 2      \* length of the list handed to FileSearcherThread
MaxTotalFiles == 2 \* files os.walk lists under the paths of one session
MaxLines == 1      \* lines of one file
MaxHitsLimit == 1  \* the non-zero excessive_hits_count tried
NumEncodings == 2  \* length of the configured encodings list
MaxRuns == 2       \* invocations of the command's run before the query
MaxIndexFiles == 2 \* files under the search directories
MaxNodes == 3      \* distinct page names
MaxRefs == 1       \* references passed to one add_node_with_refs call
MaxDocs == 2       \* files one scan of the project indexes
ScaleRoot == 1000  \* floats are kept to 1 / ScaleRoot^2

\* ------------------------------------------------------- scan session state
VARIABLES
    paths,              \* FileSearcherThread._paths
    settings,           \* the find_in_project_* settings read in __init__
    excessive_hits_count, \* FindInProject.excessive_hits_count
    wpc,                \* position of FileSearcherThread.run
    pathIdx, fileIdx,   \* position of the nested for loops of run
    result,             \* local "result" of run
    w_files_searched,   \* FileSearcherThread._files_searched
    stop_thread,        \* FileSearcherThread._stop_thread (threading.Event)
    result_queue,       \* queue.Queue: the deque of pending items
    unfinished_tasks,   \* queue.Queue.unfinished_tasks
    cpc,                \* position of display_search_results
    cur,                \* local "result" of display_search_results
    num_hits, num_file_hits, files_searched, search_cancelled,
    inserted,           \* messages handed to ResultBuffer.insert_result
    sent,               \* history: every message put, in put order
    received,           \* history: every message acknowledged (task_done)
    begun,              \* history: files that passed the stop check
    scanned,            \* history: files handed to _search_file
    skipped,            \* history: files left out by extension or size
    stopMark            \* history: Len(begun) when stop() was first called

scanVars == <<paths, settings, excessive_hits_count, wpc, pathIdx, fileIdx,
              result, w_files_searched, stop_thread, result_queue,
              unfinished_tasks, cpc, cur, num_hits, num_file_hits,
              files_searched, search_cancelled, inserted, sent,
              received, begun, scanned, skipped, stopMark>>

\* ------------------------------------------------------ indexing state
VARIABLES
    scan_threads,       \* the threads start_scan has started, oldest first
    scanning_thread,    \* FindInProject.scanning_thread (0: not yet set)
    idf_table,          \* the TfIdfTable self._idf_table refers to
    graph_pages,        \* the pages of the Graph self._graph refers to
    index_files,        \* number of files under the search directories
    rs_pc,              \* position of run_search
    scored              \* what run_search read from the index when scoring

indexVars == <<scan_threads, scanning_thread, idf_table, graph_pages,
               index_files, rs_pc, scored>>

\* ------------------------------------------------------- ranking state
VARIABLES
    node_objs,          \* the GraphNode objects, by reference
    node_lists,         \* the list objects (Graph._node_list), by reference
    node_maps,          \* the dict objects (Graph._node_map), by reference
    graph,              \* the Graph built by the caller: its two attributes
    pr_graph,           \* PageRank._graph: the attributes of the copy
    pr_pc,              \* "none" until PageRank(graph) has been constructed
    g_error,            \* the exception the last Graph call raised, if any
    before,             \* history: node_objs when PageRank(graph) was called
    float_lists,        \* the list objects calculate creates, by reference
    ranks,              \* local "ranks" of calculate: a reference
    next_ranks,         \* local "next_ranks" of calculate: a reference
    delta,              \* local "delta" of calculate
    iteration_count,    \* local "iteration_count" of calculate
    page_ranks,         \* the list calculate returns
    prev_ranks          \* history: the rank vectors read by each iteration

calcVars == <<float_lists, ranks, next_ranks, delta, iteration_count, page_ranks, prev_ranks>>

rankVars == <<node_objs, node_lists, node_maps, graph, pr_graph, pr_pc, g_error, before, calcVars>>

\* ------------------------------------------- index and query of one search
VARIABLES
    search_terms,       \* the whitespace-separated tokens of search_text
    doc_count,          \* number of files under the search directories
    s_pc,               \* position of scan_project / run_search
    documents,          \* TfIdfTable.documents
    overall_term_counts, \* TfIdfTable.overall_term_counts
    node_filename,      \* the attribute "filename" of each GraphNode (0: not set)
    term_scores,        \* local "term_scores" of run_search
    sum_scores,         \* local "sum_scores" of run_search
    sum_ranks,          \* local "sum_ranks" of run_search
    rank_mappings,      \* local "rank_mappings" of run_search
    match_scores,       \* local "match_scores" of run_search
    matching_files,     \* local "matching_files" of run_search
    appended            \* history: the list_of_terms of every append_document call

searchVars == <<search_terms, doc_count, s_pc, documents, overall_term_counts, node_filename,
                term_scores, sum_scores, sum_ranks, rank_mappings, match_scores,
                matching_files, appended>>

\* ------------------------------------- one call of a method on its own
VARIABLES
    sf_settings,        \* _search_file: the settings of the thread
    sf_file,            \* _search_file: the file at "path"
    sf_pc,              \* _search_file: position ("idle": no call)
    sf_enc,             \* _search_file: index in self.encodings of "enc"
    sf_ret,             \* _search_file: keys of the local "ret"
    sf_examined         \* history: per attempt, the number of lines tested

searchFileVars == <<sf_settings, sf_file, sf_pc, sf_enc, sf_ret, sf_examined>>

VARIABLES
    ll_target_string,   \* FileSearcherThread._target_string
    ll_max_line_len,    \* FileSearcherThread.max_line_len
    ll_line,            \* the line read from the file, a sequence of characters
    ll_pc,              \* position in the loop body of _search_file ("idle": no call)
    ll_start, ll_end,   \* locals "start" and "end" of _limit_line
    ll_line_content     \* "line_content" as stored in ret[line_num]

limitVars == <<ll_target_string, ll_max_line_len, ll_line, ll_pc, ll_start, ll_end,
               ll_line_content>>

VARIABLES
    rl_settings,        \* FileScanner: the settings read in __init__
    rl_file,            \* read_lines: the file at "filename"
    rl_pc,              \* read_lines: position of the generator ("idle": no call)
    rl_enc,             \* read_lines: index in self.encodings of "enc"
    rl_line_no,         \* read_lines: local "line_no"
    rl_yielded,         \* history: (enc, line_no) of every line yielded
    rl_warnings         \* FileScanner.warnings

readLinesVars == <<rl_settings, rl_file, rl_pc, rl_enc, rl_line_no, rl_yielded, rl_warnings>>

\* ------------------------------------------- searches started one after another
VARIABLES
    threads,            \* every FileSearcherThread started, oldest first
    queues,             \* every queue.Queue run_search has created, oldest first
    cur_queue,          \* the queue self.result_queue refers to (0: none)
    cur_thread,         \* the thread self.search_thread refers to (0: none)
    ui_pc,              \* position of run_search on the main thread
    display_loops,      \* the display_search_results calls handed to set_timeout_async
    taken               \* history: (loop, queue) of every message a loop has taken

restartVars == <<threads, queues, cur_queue, cur_thread, ui_pc, display_loops, taken>>

funcVars == <<searchFileVars, limitVars, readLinesVars, restartVars>>

vars == <<scanVars, indexVars, rankVars, searchVars, funcVars>>

\* ---------------------------------------------------------------- helpers
IsPrefix(s, t) == Len(s) <= Len(t) /\ \A i \in 1..Len(s) : s[i] = t[i]

NoFile == <<0, 0>>
NoMsg == [kind |-> "none", filepath |-> NoFile, result |-> {}, files_searched |-> 0]

\* A path handed to the worker is a directory (os.walk lists nfiles files
\* under it) or anything else (a regular file).
PathEntries == [isdir : {TRUE}, nfiles : 0..MaxTotalFiles] \cup [isdir : {FALSE}, nfiles : {0}]

\* os.walk(path): the files listed under a directory, in listing order; for
\* a path that is not a directory scandir fails, the error is dropped
\* (onerror is None) and nothing is listed.
walk(entry) == IF entry.isdir THEN [i \in 1..entry.nfiles |-> i] ELSE <<>>

RECURSIVE TotalFiles(_)
TotalFiles(ps) == IF ps = <<>> THEN 0 ELSE Len(walk(Head(ps))) + TotalFiles(Tail(ps))

\* The lists of paths a session is started with.
PathLists == {ps \in UNION {[1..n -> PathEntries] : n \in 0..MaxPaths} : TotalFiles(ps) <= MaxTotalFiles}

\* --------------------------------------------------------------- settings
\* The boolean settings FileSearcherThread.__init__ reads.
SettingsSet == [skip_binary : BOOLEAN,
                show_warning_binary_skip : BOOLEAN,
                show_warning_on_open_fail : BOOLEAN,
                show_warning_size_skip : BOOLEAN]

\* The settings a scan session is started with: the defaults (binary files
\* skipped, no warning entries), and the same with the size-skip and the
\* binary-skip warnings switched on.
SessionSettings ==
    {st \in SettingsSet : /\ st.skip_binary
                          /\ ~st.show_warning_on_open_fail
                          /\ st.show_warning_binary_skip = st.show_warning_size_skip}

\* ------------------------------------------------------------ file contents
\* A line either contains the target string ("hit"), does not ("miss"), or
\* holds a null byte and not the target ("nul").
LineKinds == {"hit", "miss", "nul"}

LinesUpTo(max) == UNION {[1..n -> LineKinds] : n \in 0..max}

LinesSet == LinesUpTo(MaxLines)

\* failAt[e] = 0: reading with encoding e raises nothing; failAt[e] = k > 0:
\* open/read raises when line k is fetched (k = 1 covers a failing open,
\* k = Len(lines)+1 an error on the bytes after the last line).
FilesOf(linesSet) ==
    UNION {[lines : {l}, failAt : [1..NumEncodings -> 0..(Len(l) + 1)]] : l \in linesSet}

Files == FilesOf(LinesSet)

\* The body of "for line_num, line_content in enumerate(target_file, 1)" of
\* _search_file for one encoding, started with the dictionary ret: the keys
\* of ret when the attempt ends and how it ends ("return": binary file,
\* "except": an exception, "else": the file was read to its end), with the
\* number of lines the body has tested.
binary_skip_keeps_matches(st, ret) == IF st.show_warning_binary_skip THEN ret \cup {0} ELSE ret

\* "ret = collections.OrderedDict(); if self.show_warning_binary_skip:
\* ret[0] = ..."
binary_skip_result(st, ret) == IF st.show_warning_binary_skip THEN {0} ELSE {}

RECURSIVE read_attempt(_, _, _, _, _)
read_attempt(st, ret, lines, k, i) ==
    IF k # 0 /\ i = k THEN [ret |-> ret, how |-> "except", tested |-> i - 1]
    ELSE IF i > Len(lines) THEN [ret |-> ret, how |-> "else", tested |-> i - 1]
    ELSE IF st.skip_binary /\ lines[i] = "nul"
         THEN [ret |-> binary_skip_result(st, ret), how |-> "return", tested |-> i]
    ELSE read_attempt(st, IF lines[i] = "hit" THEN ret \cup {i} ELSE ret, lines, k, i + 1)

\* "for enc in self.encodings" of _search_file from encoding e on. ret is
\* created once before the loop and is not reset between attempts.
RECURSIVE try_encodings(_, _, _, _)
try_encodings(st, ret, file, e) ==
    IF e > Len(file.failAt)
    THEN IF st.show_warning_on_open_fail THEN ret \cup {0} ELSE ret
    ELSE LET r == read_attempt(st, ret, file.lines, file.failAt[e], 1)
         IN  IF r.how = "except" THEN try_encodings(st, r.ret, file, e + 1) ELSE r.ret

\* FileSearcherThread._search_file: the keys of the returned OrderedDict
\* (line numbers of the matching lines, 0 for a warning entry).
search_file(st, file) == try_encodings(st, {}, file, 1)

\* Every value _search_file can return under settings st.
SearchResults == [st \in SettingsSet |-> {search_file(st, f) : f \in Files}]

\* ------------------------------------------------------------------ queue
\* queue.Queue() is built without a maxsize: maxsize is 0.
maxsize == 0

\* The test of a queue built with a capacity of one item.
QueueFull_capacity_one == Len(result_queue) >= 1

\* Queue.put blocks while "maxsize > 0 and qsize() >= maxsize".
QueueFull == maxsize > 0 /\ Len(result_queue) >= maxsize

\* {"filepath": ..., "result": ..., "files_searched": ...}
ResultMsg(fp, res, n) == [kind |-> "result", filepath |-> fp, result |-> res, files_searched |-> n]

\* {"files_searched": ...}
UpdateMsg(n) == [kind |-> "update", filepath |-> NoFile, result |-> {}, files_searched |-> n]

\* A last-in first-out queue (queue.LifoQueue) in place of the FIFO one.
Queue_get_lifo(q) == [item |-> q[Len(q)], rest |-> SubSeq(q, 1, Len(q) - 1)]

\* Queue.get() on a non-empty queue: the item taken and the items left.
Queue_get(q) == [item |-> Head(q), rest |-> Tail(q)]

\* An acknowledgment that leaves the count of unfinished tasks as it is.
task_done_missing(n) == n

\* Queue.task_done(): one unfinished task less.
task_done(n) == n - 1

\* Queue.put(item)
put(item) ==
    /\ ~QueueFull
    /\ result_queue' = Append(result_queue, item)
    /\ unfinished_tasks' = unfinished_tasks + 1
    /\ sent' = Append(sent, item)

\* ----------------------------------------------------------------- worker
\* threading.Thread.is_alive() of the search thread
WorkerAlive == wpc \notin {"done", "returned", "crashed"}

\* A stop check that never sees the event.
stop_requested_never == FALSE

\* FileSearcherThread._stop_requested
stop_requested == stop_thread

\* The next (path, file) the nested for loops of run deliver from (p, f) on;
\* p > Len(paths) when the loops are exhausted.
RECURSIVE NextPos(_, _)
NextPos(p, f) ==
    IF p > Len(paths) THEN <<p, 1>>
    ELSE IF f > Len(walk(paths[p])) THEN NextPos(p + 1, 1)
    ELSE <<p, f>>

Pos == NextPos(pathIdx, fileIdx)

workerFrame == <<funcVars, indexVars, rankVars, searchVars, paths, settings, excessive_hits_count, cpc, cur, num_hits,
                 num_file_hits, files_searched, search_cancelled,
                 inserted, received, stopMark>>

\* The for loops have no further file: fall through to the final update.
W_Exhausted ==
    /\ wpc = "loop"
    /\ Pos[1] > Len(paths)
    /\ wpc' = "final"
    /\ UNCHANGED <<workerFrame, pathIdx, fileIdx, result, w_files_searched,
                   stop_thread, result_queue, unfinished_tasks, sent, begun,
                   scanned, skipped>>

\* "if self._stop_requested(): return"
W_StopRequested ==
    /\ wpc = "loop"
    /\ Pos[1] <= Len(paths)
    /\ stop_requested
    /\ wpc' = "returned"
    /\ UNCHANGED <<workerFrame, pathIdx, fileIdx, result, w_files_searched,
                   stop_thread, result_queue, unfinished_tasks, sent, begun,
                   scanned, skipped>>

\* "if file_ext.lower() in self.exts_to_ignore: continue"
W_SkipExt ==
    /\ wpc = "loop"
    /\ Pos[1] <= Len(paths)
    /\ ~stop_requested
    /\ pathIdx' = Pos[1]
    /\ fileIdx' = Pos[2] + 1
    /\ skipped' = Append(skipped, Pos)
    /\ UNCHANGED <<workerFrame, wpc, result, w_files_searched, stop_thread,
                   result_queue, unfinished_tasks, sent, begun, scanned>>

\* The stop check and the extension test let the file through.
W_Begin ==
    /\ wpc = "loop"
    /\ Pos[1] <= Len(paths)
    /\ ~stop_requested
    /\ pathIdx' = Pos[1]
    /\ fileIdx' = Pos[2]
    /\ begun' = Append(begun, Pos)
    /\ wpc' = "stat"
    /\ UNCHANGED <<workerFrame, result, w_files_searched, stop_thread,
                   result_queue, unfinished_tasks, sent, scanned, skipped>>

\* os.path.getsize(filepath) raises OSError (the file is gone, a dangling
\* symbolic link): nothing in run catches it and the thread ends.
W_StatFail ==
    /\ wpc = "stat"
    /\ wpc' = "crashed"
    /\ UNCHANGED <<workerFrame, pathIdx, fileIdx, result, w_files_searched,
                   stop_thread, result_queue, unfinished_tasks, sent, begun,
                   scanned, skipped>>

\* A size skip that always carries the placeholder.
size_skip_result_always(st) == {0}

\* "result = collections.OrderedDict(); if self.show_warning_size_skip:
\* result[0] = ..."
size_skip_result(st) == IF st.show_warning_size_skip THEN {0} ELSE {}

\* "if file_size > self.max_file_size"
W_SizeSkip ==
    /\ wpc = "stat"
    /\ result' = size_skip_result(settings)
    /\ skipped' = Append(skipped, <<pathIdx, fileIdx>>)
    /\ wpc' = "put"
    /\ UNCHANGED <<workerFrame, pathIdx, fileIdx, w_files_searched, stop_thread,
                   result_queue, unfinished_tasks, sent, begun, scanned>>

\* "else: result = self._search_file(filepath); self._files_searched += 1"
W_Search ==
    /\ wpc = "stat"
    /\ \E r \in SearchResults[settings] : result' = r
    /\ w_files_searched' = w_files_searched + 1
    /\ scanned' = Append(scanned, <<pathIdx, fileIdx>>)
    /\ wpc' = "put"
    /\ UNCHANGED <<workerFrame, pathIdx, fileIdx, stop_thread, result_queue,
                   unfinished_tasks, begun, sent, skipped>>

\* "if len(result): ... self._result_queue.put(ret)"
W_PutResult ==
    /\ wpc = "put"
    /\ result # {}
    /\ put(ResultMsg(<<pathIdx, fileIdx>>, result, w_files_searched))
    /\ fileIdx' = fileIdx + 1
    /\ wpc' = "loop"
    /\ UNCHANGED <<workerFrame, pathIdx, result, w_files_searched, stop_thread,
                   begun, scanned, skipped>>

\* "elif time.time() > (self._files_searched_last_update + 0.2): put(update)"
W_PutUpdate ==
    /\ wpc = "put"
    /\ result = {}
    /\ put(UpdateMsg(w_files_searched))
    /\ fileIdx' = fileIdx + 1
    /\ wpc' = "loop"
    /\ UNCHANGED <<workerFrame, pathIdx, result, w_files_searched, stop_thread,
                   begun, scanned, skipped>>

\* Neither branch: no match and the last update is less than 0.2 s old.
W_NoPut ==
    /\ wpc = "put"
    /\ result = {}
    /\ fileIdx' = fileIdx + 1
    /\ wpc' = "loop"
    /\ UNCHANGED <<workerFrame, pathIdx, result, w_files_searched, stop_thread,
                   result_queue, unfinished_tasks, sent, begun, scanned, skipped>>

\* "Send a final update on files searched"
W_Final ==
    /\ wpc = "final"
    /\ put(UpdateMsg(w_files_searched))
    /\ wpc' = "join"
    /\ UNCHANGED <<workerFrame, pathIdx, fileIdx, result, w_files_searched,
                   stop_thread, begun, scanned, skipped>>

\* "self._result_queue.join()": returns once unfinished_tasks is 0.
W_Join ==
    /\ wpc = "join"
    /\ unfinished_tasks = 0
    /\ wpc' = "done"
    /\ UNCHANGED <<workerFrame, pathIdx, fileIdx, result, w_files_searched,
                   stop_thread, result_queue, unfinished_tasks, sent, begun,
                   scanned, skipped>>

Worker ==
    \/ W_Exhausted \/ W_StopRequested \/ W_SkipExt \/ W_Begin
    \/ W_StatFail \/ W_SizeSkip \/ W_Search
    \/ W_PutResult \/ W_PutUpdate \/ W_NoPut \/ W_Final \/ W_Join

\* --------------------------------------------------------------- consumer
\* FileSearcherThread.stop(), with the history mark of the first call.
stop ==
    /\ stop_thread' = TRUE
    /\ stopMark' = IF stop_thread THEN stopMark ELSE Len(begun)

\* num_hits after the message msg: warning entries (key 0) are not counted.
HitsAfter(msg) ==
    IF msg.kind = "result" /\ msg.result # {} /\ 0 \notin msg.result
    THEN num_hits + Cardinality(msg.result)
    ELSE num_hits

FileHitsAfter(msg) ==
    IF msg.kind = "result" /\ msg.result # {} /\ 0 \notin msg.result
    THEN num_file_hits + 1
    ELSE num_file_hits

\* "(self.excessive_hits_count != 0) and (self.num_hits > self.excessive_hits_count)"
Excessive(hits) == excessive_hits_count # 0 /\ hits > excessive_hits_count

consumerFrame == <<funcVars, indexVars, rankVars, searchVars, paths, settings, excessive_hits_count, wpc, pathIdx, fileIdx,
                   result, w_files_searched, sent, begun, scanned, skipped>>

\* "while self.search_thread.isAlive() or (self.result_queue.empty() == False)"
C_LoopEnter ==
    /\ cpc = "loop"
    /\ WorkerAlive \/ result_queue # <<>>
    /\ cpc' = "check"
    /\ UNCHANGED <<consumerFrame, stop_thread, stopMark, result_queue,
                   unfinished_tasks, cur, num_hits, num_file_hits,
                   files_searched, search_cancelled, inserted, received>>

\* The loop condition is false: set_final_status.
C_LoopExit ==
    /\ cpc = "loop"
    /\ ~(WorkerAlive \/ result_queue # <<>>)
    /\ cpc' = "finished"
    /\ UNCHANGED <<consumerFrame, stop_thread, stopMark, result_queue,
                   unfinished_tasks, cur, num_hits, num_file_hits,
                   files_searched, search_cancelled, inserted, received>>

\* "if self.result_buffer.is_closed(): stop(); search_cancelled = True; break"
\* where is_closed() returns True: the user has closed the result view.
C_Closed ==
    /\ cpc = "check"
    /\ stop
    /\ search_cancelled' = TRUE
    /\ cpc' = "finished"
    /\ UNCHANGED <<consumerFrame, result_queue, unfinished_tasks, cur, num_hits,
                   num_file_hits, files_searched, inserted, received>>

\* is_closed() returns False: the result view is still open.
C_Open ==
    /\ cpc = "check"
    /\ cpc' = "poll"
    /\ UNCHANGED <<consumerFrame, stop_thread, stopMark, result_queue,
                   unfinished_tasks, cur, num_hits, num_file_hits,
                   files_searched, search_cancelled, inserted, received>>

\* "if not self.result_queue.empty()" is false: next round of the loop.
C_Empty ==
    /\ cpc = "poll"
    /\ result_queue = <<>>
    /\ cpc' = "loop"
    /\ UNCHANGED <<consumerFrame, stop_thread, stopMark, result_queue,
                   unfinished_tasks, cur, num_hits, num_file_hits,
                   files_searched, search_cancelled, inserted, received>>

\* get(), the counters, and the hit threshold is not exceeded.
C_Get ==
    /\ cpc = "poll"
    /\ result_queue # <<>>
    /\ LET msg == Queue_get(result_queue).item IN
        /\ ~Excessive(HitsAfter(msg))
        /\ cur' = msg
        /\ num_hits' = HitsAfter(msg)
        /\ num_file_hits' = FileHitsAfter(msg)
        /\ files_searched' = msg.files_searched
    /\ result_queue' = Queue_get(result_queue).rest
    /\ cpc' = "ack"
    /\ UNCHANGED <<consumerFrame, stop_thread, stopMark, unfinished_tasks,
                   search_cancelled, inserted, received>>

\* get(), the counters, and the hit threshold is exceeded: stop and break,
\* without insert_result and without task_done.
C_GetExcessive ==
    /\ cpc = "poll"
    /\ result_queue # <<>>
    /\ LET msg == Queue_get(result_queue).item IN
        /\ Excessive(HitsAfter(msg))
        /\ cur' = msg
        /\ num_hits' = HitsAfter(msg)
        /\ num_file_hits' = FileHitsAfter(msg)
        /\ files_searched' = msg.files_searched
    /\ result_queue' = Queue_get(result_queue).rest
    /\ stop
    /\ search_cancelled' = TRUE
    /\ cpc' = "finished"
    /\ UNCHANGED <<consumerFrame, unfinished_tasks, inserted, received>>

\* "if "result" in result: insert_result(result)" and "task_done()"
C_Ack ==
    /\ cpc = "ack"
    /\ inserted' = IF cur.kind = "result" THEN Append(inserted, cur) ELSE inserted
    /\ unfinished_tasks' = task_done(unfinished_tasks)
    /\ received' = Append(received, cur)
    /\ cur' = NoMsg
    /\ cpc' = "loop"
    /\ UNCHANGED <<consumerFrame, stop_thread, stopMark, result_queue, num_hits,
                   num_file_hits, files_searched, search_cancelled>>

Consumer ==
    \/ C_LoopEnter \/ C_LoopExit \/ C_Closed \/ C_Open
    \/ C_Empty \/ C_Get \/ C_GetExcessive \/ C_Ack

\* ------------------------------------------------- scan session: Init, Next
\* The state when run_search has started the search thread and
\* display_search_results is about to run.
ScanInit(pathLists, settingsSet, limits) ==
    /\ paths \in pathLists
    /\ settings \in settingsSet
    /\ excessive_hits_count \in limits
    /\ wpc = "loop"
    /\ pathIdx = 1
    /\ fileIdx = 1
    /\ result = {}
    /\ w_files_searched = 0
    /\ stop_thread = FALSE
    /\ result_queue = <<>>
    /\ unfinished_tasks = 0
    /\ cpc = "loop"
    /\ cur = NoMsg
    /\ num_hits = 0
    /\ num_file_hits = 0
    /\ files_searched = 0
    /\ search_cancelled = FALSE
    /\ inserted = <<>>
    /\ sent = <<>>
    /\ received = <<>>
    /\ begun = <<>>
    /\ scanned = <<>>
    /\ skipped = <<>>
    /\ stopMark = 0

\* No method is called on its own.
SearchFileIdle ==
    /\ sf_settings = <<>>
    /\ sf_file = <<>>
    /\ sf_pc = "idle"
    /\ sf_enc = 0
    /\ sf_ret = {}
    /\ sf_examined = <<>>

LimitIdle ==
    /\ ll_target_string = <<>>
    /\ ll_max_line_len = 0
    /\ ll_line = <<>>
    /\ ll_pc = "idle"
    /\ ll_start = 0
    /\ ll_end = 0
    /\ ll_line_content = <<>>

ReadLinesIdle ==
    /\ rl_settings = <<>>
    /\ rl_file = <<>>
    /\ rl_pc = "idle"
    /\ rl_enc = 0
    /\ rl_line_no = 0
    /\ rl_yielded = <<>>
    /\ rl_warnings = <<>>

RestartIdle ==
    /\ threads = <<>>
    /\ queues = <<>>
    /\ cur_queue = 0
    /\ cur_thread = 0
    /\ ui_pc = "none"
    /\ display_loops = <<>>
    /\ taken = <<>>

FuncIdle == SearchFileIdle /\ LimitIdle /\ ReadLinesIdle /\ RestartIdle

\* No indexing thread and no query yet.
IndexIdle ==
    /\ scan_threads = <<>>
    /\ scanning_thread = 0
    /\ idf_table = <<>>
    /\ graph_pages = <<>>
    /\ index_files = 0
    /\ rs_pc = "panel"
    /\ scored = <<>>

\* Graph(): an empty dict and an empty list; no PageRank yet.
RankIdle ==
    /\ node_objs = <<>>
    /\ node_lists = <<(<<>>)>>
    /\ node_maps = <<(<<>>)>>
    /\ graph = [node_map |-> 1, node_list |-> 1]
    /\ pr_graph = [node_map |-> 0, node_list |-> 0]
    /\ pr_pc = "none"
    /\ g_error = "none"
    /\ before = <<>>
    /\ float_lists = <<>>
    /\ ranks = 0
    /\ next_ranks = 0
    /\ delta = 0
    /\ iteration_count = 0
    /\ page_ranks = <<>>
    /\ prev_ranks = <<>>

\* No project scanned and no query scored.
SearchIdle ==
    /\ search_terms = <<>>
    /\ doc_count = 0
    /\ s_pc = "idle"
    /\ documents = <<>>
    /\ overall_term_counts = <<>>
    /\ node_filename = <<>>
    /\ term_scores = <<>>
    /\ sum_scores = 0
    /\ sum_ranks = 0
    /\ rank_mappings = <<>>
    /\ match_scores = <<>>
    /\ matching_files = <<>>
    /\ appended = <<>>

Init == ScanInit(PathLists, SessionSettings, {0, MaxHitsLimit}) /\ IndexIdle /\ RankIdle /\ FuncIdle /\ SearchIdle

Next == Worker \/ Consumer

Spec == Init /\ [][Next]_vars

\* The sessions the liveness properties are checked on: those started with
\* at most one path (one directory of up to MaxTotalFiles files, or one file).
FairInit ==
    /\ ScanInit({ps \in PathLists : Len(ps) <= 1}, SessionSettings, {0, MaxHitsLimit})
    /\ IndexIdle
    /\ SearchIdle
    /\ RankIdle
    /\ FuncIdle

\* The worker and the consumer are threads the interpreter keeps scheduling.
FairSpec == FairInit /\ [][Next]_vars /\ WF_vars(Worker) /\ WF_vars(Consumer)

\* Sessions on at most one path, with every combination of the size-skip
\* and the open-failure warnings (the binary-skip warning as the size-skip
\* one).
WarningSettings ==
    {st \in SettingsSet : /\ st.skip_binary
                          /\ st.show_warning_binary_skip = st.show_warning_size_skip}

InitWarnings ==
    /\ ScanInit({ps \in PathLists : Len(ps) <= 1}, WarningSettings, {0, MaxHitsLimit})
    /\ IndexIdle
    /\ SearchIdle
    /\ RankIdle
    /\ FuncIdle

SpecWarnings == InitWarnings /\ [][Next]_vars


\* ============================================================ scan claims
Drained == result_queue = <<>> /\ unfinished_tasks = 0

\* C1: once the consumer has requested cancellation (stop() was called), the
\* worker eventually terminates with the queue empty and no message
\* unacknowledged.
C1_CancelledWorkerDrains == stop_thread ~> (~WorkerAlive /\ Drained)

\* C2: once stop() has been called the worker lets no further file through
\* its stop check (the files begun are those begun when stop() was called),
\* every file handed to _search_file is one of them, and so is the file of
\* every result message put on the queue.
C2_NoFileAfterStop ==
    stop_thread =>
        /\ Len(begun) = stopMark
        /\ \A i \in 1..Len(scanned) : \E j \in 1..stopMark : begun[j] = scanned[i]
        /\ \A i \in 1..Len(sent) :
              sent[i].kind = "result" => \E j \in 1..stopMark : begun[j] = sent[i].filepath

\* C2 witness: stop() was called while a file was in progress, that file was
\* searched and reported, and the worker returned with a candidate left.
C2_Witness ==
    /\ stop_thread
    /\ wpc = "returned"
    /\ stopMark >= 1
    /\ Len(scanned) = stopMark
    /\ Len(sent) >= 1
    /\ sent[Len(sent)].filepath = begun[stopMark]
    /\ TotalFiles(paths) > stopMark

\* C3: whenever the worker thread is no longer alive, the queue holds no
\* message and no message is unacknowledged.
C3_FinishedWorkerDrained == ~WorkerAlive => Drained

\* The end of a session the consumer did not cancel.
C4_Terminal ==
    /\ cpc = "finished"
    /\ ~WorkerAlive
    /\ ~search_cancelled
    /\ received = sent
    /\ Drained

NonDecreasing(s) == \A i, j \in 1..Len(s) : i <= j => s[i].files_searched <= s[j].files_searched

\* C5: the files_searched values of the messages put never decrease along
\* the queue, and no step lowers the consumer's files_searched counter.
C5_FilesSearchedMonotone ==
    [][NonDecreasing(sent') /\ files_searched' >= files_searched]_vars

\* C5 witness: the consumer has processed two messages with different
\* files_searched values.
C5_Witness ==
    /\ Len(received) >= 2
    /\ received[1].files_searched < received[2].files_searched
    /\ files_searched = received[2].files_searched

\* C6: when every path handed to the worker is a file path (the ranked list
\* of run_search) and the run is not cancelled, a worker that has terminated
\* has handled every listed file: each was searched or left out by extension
\* or size, and none twice.
C6_RankedFilesScanned ==
    (~WorkerAlive /\ ~stop_thread /\ \A i \in 1..Len(paths) : ~paths[i].isdir) =>
        /\ Len(scanned) + Len(skipped) = Len(paths)
        /\ \A i, j \in 1..Len(scanned) : scanned[i] = scanned[j] => i = j

C9_FailureContained ==
    (~WorkerAlive /\ ~stop_thread) => (wpc = "done" /\ Pos[1] > Len(paths))

\* ================================================================ indexing
\* FindInProject.run: start_scan starts a new thread running scan_project
\* and stores it in self.scanning_thread; then the input panel is shown.
Run ==
    /\ rs_pc = "panel"
    /\ Len(scan_threads) < MaxRuns
    /\ scan_threads' = Append(scan_threads, [pc |-> "start", next |-> 1])
    /\ scanning_thread' = Len(scan_threads) + 1
    /\ UNCHANGED <<funcVars, scanVars, searchVars, rankVars, idf_table, graph_pages, index_files, rs_pc, scored>>

\* scan_project, first two statements: self._idf_table and self._graph are
\* bound to new, empty objects.
I_Reset ==
    \E t \in 1..Len(scan_threads) :
        /\ scan_threads[t].pc = "start"
        /\ scan_threads' = [scan_threads EXCEPT ![t].pc = "scanning"]
        /\ idf_table' = <<>>
        /\ graph_pages' = <<>>
        /\ UNCHANGED <<funcVars, scanVars, searchVars, rankVars, scanning_thread, index_files, rs_pc, scored>>

\* scan_file for the next file: the document is appended to the table
\* self._idf_table refers to now and its page to the graph self._graph
\* refers to now.
I_ScanFile ==
    \E t \in 1..Len(scan_threads) :
        /\ scan_threads[t].pc = "scanning"
        /\ scan_threads[t].next <= index_files
        /\ idf_table' = Append(idf_table, <<t, scan_threads[t].next>>)
        /\ graph_pages' = Append(graph_pages, <<t, scan_threads[t].next>>)
        /\ scan_threads' = [scan_threads EXCEPT ![t].next = @ + 1]
        /\ UNCHANGED <<funcVars, scanVars, searchVars, rankVars, scanning_thread, index_files, rs_pc, scored>>

\* scan_file for the next file, and FileScanner.read_lines raises an error
\* that is no UnicodeDecodeError (os.path.getsize or open fails): neither
\* scan_file nor scan_project catches it and the thread ends.
I_ScanFails ==
    \E t \in 1..Len(scan_threads) :
        /\ scan_threads[t].pc = "scanning"
        /\ scan_threads[t].next <= index_files
        /\ scan_threads' = [scan_threads EXCEPT ![t].pc = "crashed"]
        /\ UNCHANGED <<funcVars, scanVars, searchVars, rankVars, scanning_thread, idf_table, graph_pages,
                       index_files, rs_pc, scored>>

\* The loops of scan_project are exhausted: the thread ends.
I_Finish ==
    \E t \in 1..Len(scan_threads) :
        /\ scan_threads[t].pc = "scanning"
        /\ scan_threads[t].next > index_files
        /\ scan_threads' = [scan_threads EXCEPT ![t].pc = "done"]
        /\ UNCHANGED <<funcVars, scanVars, searchVars, rankVars, scanning_thread, idf_table, graph_pages,
                       index_files, rs_pc, scored>>

\* threading.Thread.is_alive() of an indexing thread
IndexerAlive(t) == scan_threads[t].pc \in {"start", "scanning"}

\* The user submits a non-empty query: run_search is called.
Submit ==
    /\ rs_pc = "panel"
    /\ scanning_thread # 0
    /\ rs_pc' = "join"
    /\ UNCHANGED <<funcVars, scanVars, searchVars, rankVars, scan_threads, scanning_thread, idf_table,
                   graph_pages, index_files, scored>>

\* "self.scanning_thread.join()"
RS_Join ==
    /\ rs_pc = "join"
    /\ ~IndexerAlive(scanning_thread)
    /\ rs_pc' = "scoring"
    /\ UNCHANGED <<funcVars, scanVars, searchVars, rankVars, scan_threads, scanning_thread, idf_table,
                   graph_pages, index_files, scored>>

\* run_search from "Calculate term scores" to the start of the search
\* thread: self._idf_table.search and pagerank.PageRank(self._graph) read
\* the objects the two attributes refer to.
RS_Score ==
    /\ rs_pc = "scoring"
    /\ scored' = [docs |-> idf_table, pages |-> graph_pages]
    /\ rs_pc' = "searching"
    /\ UNCHANGED <<funcVars, scanVars, searchVars, rankVars, scan_threads, scanning_thread, idf_table,
                   graph_pages, index_files>>

Indexer == I_Reset \/ I_ScanFile \/ I_ScanFails \/ I_Finish

RunSearch == RS_Join \/ RS_Score

\* No search session: the scan variables stay as run_search would start an
\* empty session.
ScanIdle ==
    ScanInit({<<>>},
             {[skip_binary |-> TRUE, show_warning_binary_skip |-> FALSE,
               show_warning_on_open_fail |-> FALSE, show_warning_size_skip |-> FALSE]},
             {0})

IndexInit ==
    /\ scan_threads = <<>>
    /\ scanning_thread = 0
    /\ idf_table = <<>>
    /\ graph_pages = <<>>
    /\ index_files \in 0..MaxIndexFiles
    /\ rs_pc = "panel"
    /\ scored = <<>>

InitIndex == ScanIdle /\ IndexInit /\ RankIdle /\ FuncIdle /\ SearchIdle

NextIndex == Run \/ Indexer \/ Submit \/ RunSearch

SpecIndex == InitIndex /\ [][NextIndex]_vars

\* --------------------------------------------------------- indexing claims
\* C8: while run_search computes term scores and ranks, no indexing thread
\* is alive: every thread started by an invocation of run has ended.
\* (Stated for the runs in which no file failed, so that it does not rest
\* on what a failing file does to an indexing thread.)
C8_NoIndexerWhileScoring ==
    (rs_pc = "scoring" /\ \A t \in 1..Len(scan_threads) : scan_threads[t].pc # "crashed")
        => \A t \in 1..Len(scan_threads) : ~IndexerAlive(t)

\* ================================================================= ranking
NodeIds == 1..MaxNodes

\* A dict is the sequence of its items [key, val] in insertion order.
DictHas(d, k) == \E i \in 1..Len(d) : d[i].key = k

DictVal(d, k) == d[CHOOSE i \in 1..Len(d) : d[i].key = k].val

\* The objects of the heap: GraphNode objects, lists and dicts.
Heap == [objs |-> node_objs, lists |-> node_lists, maps |-> node_maps]

\* GraphNode(node_index, node_id)
GraphNode(node_index, node_id) ==
    [index |-> node_index, node_id |-> node_id, in_links |-> {}, out_counts |-> 0]

\* len(graph)
GraphLen(H, g) == Len(H.lists[g.node_list])

add_node_always_new(H, g, node_id) ==
    LET ref == Len(H.objs) + 1
    IN  [objs |-> Append(H.objs, GraphNode(GraphLen(H, g), node_id)),
         lists |-> [H.lists EXCEPT ![g.node_list] = Append(@, ref)],
         maps |-> [H.maps EXCEPT ![g.node_map] = Append(@, [key |-> node_id, val |-> ref])]]

\* Graph.add_node(node_id) on graph g in heap H: the heap afterwards.
add_node(H, g, node_id) ==
    IF DictHas(H.maps[g.node_map], node_id) THEN H
    ELSE LET ref == Len(H.objs) + 1
         IN  [objs |-> Append(H.objs, GraphNode(GraphLen(H, g), node_id)),
              lists |-> [H.lists EXCEPT ![g.node_list] = Append(@, ref)],
              maps |-> [H.maps EXCEPT ![g.node_map] = Append(@, [key |-> node_id, val |-> ref])]]

add_link_uncollapsed(H, g, source_id, target_id) ==
    IF ~DictHas(H.maps[g.node_map], source_id) THEN [heap |-> H, err |-> "KeyError"]
    ELSE LET H1 == add_node(H, g, target_id)
             src == DictVal(H1.maps[g.node_map], source_id)
             tgt == DictVal(H1.maps[g.node_map], target_id)
             H2 == [H1 EXCEPT !.objs[src].out_counts = @ + 1]
         IN  [heap |-> [H2 EXCEPT !.objs[tgt].in_links = @ \cup {H1.objs[src].index}],
              err |-> "none"]

\* Graph.add_link(source_id, target_id): the heap afterwards and the
\* exception raised ("none" or "KeyError": self._node_map[source_id] of a
\* source that was never added, before anything is changed).
add_link(H, g, source_id, target_id) ==
    IF source_id = target_id THEN [heap |-> H, err |-> "none"]
    ELSE IF ~DictHas(H.maps[g.node_map], source_id) THEN [heap |-> H, err |-> "KeyError"]
    ELSE LET H1 == add_node(H, g, target_id)
             src == DictVal(H1.maps[g.node_map], source_id)
             tgt == DictVal(H1.maps[g.node_map], target_id)
             source_index == H1.objs[src].index
         IN  IF source_index \in H1.objs[tgt].in_links
             THEN [heap |-> H1, err |-> "none"]
             ELSE [heap |-> [H1 EXCEPT !.objs =
                               [r \in DOMAIN H1.objs |->
                                  IF r = src /\ r = tgt
                                  THEN [H1.objs[r] EXCEPT !.out_counts = @ + 1,
                                                          !.in_links = @ \cup {source_index}]
                                  ELSE IF r = src
                                  THEN [H1.objs[r] EXCEPT !.out_counts = @ + 1]
                                  ELSE IF r = tgt
                                  THEN [H1.objs[r] EXCEPT !.in_links = @ \cup {source_index}]
                                  ELSE H1.objs[r]]],
                   err |-> "none"]

\* Graph.add_node_with_refs(node_id, *node_refs)
RECURSIVE add_refs(_, _, _, _)
add_refs(H, g, node_id, refs) ==
    IF refs = <<>> THEN H
    ELSE add_refs(add_link(H, g, node_id, Head(refs)).heap, g, node_id, Tail(refs))

add_node_with_refs(H, g, node_id, refs) == add_refs(add_node(H, g, node_id), g, node_id, refs)

\* Graph.add_links(links): the heap afterwards and the exception raised.
RECURSIVE add_links(_, _, _)
add_links(H, g, links) ==
    IF links = <<>> THEN [heap |-> H, err |-> "none"]
    ELSE LET source_id == Head(links)[1]
             target_id == Head(links)[2]
             r == add_link(add_node(add_node(H, g, source_id), g, target_id),
                           g, source_id, target_id)
         IN  IF r.err # "none" THEN r ELSE add_links(r.heap, g, Tail(links))

\* copy.copy(graph): a new Graph object whose attributes refer to the same
\* dict and the same list as those of graph.
copy_copy(g) == [node_map |-> g.node_map, node_list |-> g.node_list]

add_link_to_other_nodes(H, g, source_index) ==
    [H EXCEPT !.objs =
        [r \in DOMAIN H.objs |->
            IF H.objs[r].index # source_index
            THEN [H.objs[r] EXCEPT !.in_links = @ \cup {source_index}]
            ELSE H.objs[r]]]

\* PageRank._add_link_to_all_nodes(source_index)
add_link_to_all_nodes(H, g, source_index) ==
    [H EXCEPT !.objs =
        [r \in DOMAIN H.objs |->
            IF \E i \in 1..Len(H.maps[g.node_map]) : H.maps[g.node_map][i].val = r
            THEN [H.objs[r] EXCEPT !.in_links = @ \cup {source_index}]
            ELSE H.objs[r]]]

\* PageRank._apply_sink_linking from the k-th item of the dict on.
RECURSIVE apply_sink_linking_from(_, _, _)
apply_sink_linking_from(H, g, k) ==
    IF k > Len(H.maps[g.node_map]) THEN H
    ELSE LET ref == H.maps[g.node_map][k].val
         IN  IF H.objs[ref].out_counts = 0
             THEN apply_sink_linking_from(
                      add_link_to_all_nodes(
                          [H EXCEPT !.objs[ref].out_counts = GraphLen(H, g)],
                          g, H.objs[ref].index),
                      g, k + 1)
             ELSE apply_sink_linking_from(H, g, k + 1)

apply_sink_linking_counts_only(H, g) ==
    [H EXCEPT !.objs =
        [r \in DOMAIN H.objs |->
            IF /\ \E i \in 1..Len(H.maps[g.node_map]) : H.maps[g.node_map][i].val = r
               /\ H.objs[r].out_counts = 0
            THEN [H.objs[r] EXCEPT !.out_counts = GraphLen(H, g)]
            ELSE H.objs[r]]]


apply_sink_linking(H, g) == apply_sink_linking_from(H, g, 1)

SetHeap(H) ==
    /\ node_objs' = H.objs
    /\ node_lists' = H.lists
    /\ node_maps' = H.maps

\* graph.add_node(id)
G_AddNode ==
    /\ pr_pc = "none"
    /\ \E id \in NodeIds : SetHeap(add_node(Heap, graph, id))
    /\ g_error' = "none"
    /\ UNCHANGED <<funcVars, scanVars, searchVars, indexVars, calcVars, graph, pr_graph, pr_pc, before>>

\* graph.add_link(s, t)
G_AddLink ==
    /\ pr_pc = "none"
    /\ \E s, t \in NodeIds :
          LET r == add_link(Heap, graph, s, t)
          IN  SetHeap(r.heap) /\ g_error' = r.err
    /\ UNCHANGED <<funcVars, scanVars, searchVars, indexVars, calcVars, graph, pr_graph, pr_pc, before>>

\* graph.add_links([(s, t)])
G_AddLinks ==
    /\ pr_pc = "none"
    /\ \E s, t \in NodeIds :
          LET r == add_links(Heap, graph, << <<s, t>> >>)
          IN  SetHeap(r.heap) /\ g_error' = r.err
    /\ UNCHANGED <<funcVars, scanVars, searchVars, indexVars, calcVars, graph, pr_graph, pr_pc, before>>

\* graph.add_node_with_refs(id, *refs)
G_AddNodeWithRefs ==
    /\ pr_pc = "none"
    /\ \E id \in NodeIds : \E refs \in UNION {[1..n -> NodeIds] : n \in 0..MaxRefs} :
          SetHeap(add_node_with_refs(Heap, graph, id, refs))
    /\ g_error' = "none"
    /\ UNCHANGED <<funcVars, scanVars, searchVars, indexVars, calcVars, graph, pr_graph, pr_pc, before>>

\* PageRank(graph): self._graph = copy.copy(_graph); self._apply_sink_linking()
R_Construct ==
    /\ pr_pc = "none"
    /\ before' = node_objs
    /\ pr_graph' = copy_copy(graph)
    /\ SetHeap(apply_sink_linking(Heap, copy_copy(graph)))
    /\ pr_pc' = "built"
    /\ g_error' = "none"
    /\ UNCHANGED <<funcVars, scanVars, searchVars, indexVars, calcVars, graph>>

\* ------------------------------------------------------ PageRank.calculate
\* Python floats are modelled as fixed-point numbers: the integer x stands
\* for x / Scale, and a division rounds down to a multiple of 1 / Scale.
Scale == ScaleRoot * ScaleRoot

\* the default "damping=0.85" of calculate
damping == [num |-> 17, den |-> 20]

\* the default "epsilon=1.0e-5" of calculate
epsilon == Scale \div 100000

\* damping * x
times_damping(x) == (x * damping.num) \div damping.den

\* abs(x)
abs(x) == IF x < 0 THEN 0 - x ELSE x

\* PageRank._out_count(index)
out_count(H, g, index) == H.objs[H.lists[g.node_list][index + 1]].out_counts

\* sum(ranks[idx] / self._out_count(idx) for idx in in_links), with ranks
\* the list object "rk" as it is at this moment.
RECURSIVE sum_over_in_links(_, _, _, _)
sum_over_in_links(H, g, rk, in_links) ==
    IF in_links = {} THEN 0
    ELSE LET idx == CHOOSE x \in in_links : TRUE
         IN  (rk[idx + 1] \div out_count(H, g, idx))
             + sum_over_in_links(H, g, rk, in_links \ {idx})

damping_per_page_undivided(page_count) == Scale - times_damping(Scale)

\* (1 - damping) / page_count
damping_per_page(page_count) == (Scale - times_damping(Scale)) \div page_count

\* The for loop of one iteration, from the k-th item of the dict on: F is
\* the state of the list objects; next_ranks[page.index] is assigned in
\* the list object "nx" and ranks[idx] is read from the list object "rk"
\* as it is when the page is reached.
RECURSIVE calculate_next_ranks(_, _, _, _, _, _)
calculate_next_ranks(H, g, F, rk, nx, k) ==
    IF k > Len(H.maps[g.node_map]) THEN F
    ELSE LET page == H.objs[H.maps[g.node_map][k].val]
             value == damping_per_page(GraphLen(H, g))
                      + times_damping(sum_over_in_links(H, g, F[rk], page.in_links))
         IN  calculate_next_ranks(H, g, [F EXCEPT ![nx][page.index + 1] = value],
                                  rk, nx, k + 1)

\* sum(abs(a[i] - b[i])) from position i on
RECURSIVE sum_abs_diff(_, _, _)
sum_abs_diff(a, b, i) ==
    IF i > Len(a) THEN 0 ELSE abs(a[i] - b[i]) + sum_abs_diff(a, b, i + 1)

\* list.sort(reverse=True, key=lambda x: x[1]): a stable sort, so items of
\* equal rank keep their order.  insert_desc puts x behind every item whose
\* rank is at least that of x.
RECURSIVE insert_asc(_, _)
insert_asc(sorted, x) ==
    IF sorted = <<>> THEN <<x>>
    ELSE IF Head(sorted)[2] <= x[2] THEN <<Head(sorted)>> \o insert_asc(Tail(sorted), x)
    ELSE <<x>> \o sorted

RECURSIVE insert_desc(_, _)
insert_desc(sorted, x) ==
    IF sorted = <<>> THEN <<x>>
    ELSE IF Head(sorted)[2] >= x[2] THEN <<Head(sorted)>> \o insert_desc(Tail(sorted), x)
    ELSE <<x>> \o sorted

RECURSIVE sort_desc_from(_, _, _)
sort_desc_from(items, sorted, i) ==
    IF i > Len(items) THEN sorted
    ELSE sort_desc_from(items, insert_desc(sorted, items[i]), i + 1)

sort_desc(items) == sort_desc_from(items, <<>>, 1)

\* calculate up to the while loop.  With an empty graph the division by
\* page_count raises ZeroDivisionError.
R_Calculate ==
    /\ pr_pc = "built"
    /\ LET page_count == GraphLen(Heap, pr_graph)
       IN  IF page_count = 0
           THEN /\ pr_pc' = "ZeroDivisionError"
                /\ UNCHANGED <<float_lists, ranks, next_ranks, delta>>
           ELSE /\ pr_pc' = "loop"
                /\ float_lists' = << [i \in 1..page_count |-> Scale \div page_count],
                                    [i \in 1..page_count |-> 0] >>
                /\ ranks' = 1
                /\ next_ranks' = 2
                /\ delta' = Scale
    /\ iteration_count' = 0
    /\ UNCHANGED <<funcVars, scanVars, searchVars, indexVars, node_objs, node_lists, node_maps, graph, pr_graph,
                   g_error, before, page_ranks, prev_ranks>>

\* One pass of "while delta > epsilon".
R_Iterate ==
    /\ pr_pc = "loop"
    /\ delta > epsilon
    /\ LET F == calculate_next_ranks(Heap, pr_graph, float_lists, ranks, next_ranks, 1)
       IN  /\ float_lists' = F
           /\ delta' = sum_abs_diff(F[next_ranks], F[ranks], 1)
    /\ ranks' = next_ranks
    /\ iteration_count' = iteration_count + 1
    /\ prev_ranks' = Append(prev_ranks, float_lists[ranks])
    /\ UNCHANGED <<funcVars, scanVars, searchVars, indexVars, node_objs, node_lists, node_maps, graph, pr_graph,
                   pr_pc, g_error, before, next_ranks, page_ranks>>

\* The loop ends: the pages are listed with their ranks, sorted and returned.
R_Return ==
    /\ pr_pc = "loop"
    /\ delta <= epsilon
    /\ page_ranks' = sort_desc([i \in 1..GraphLen(Heap, pr_graph) |->
                                   <<Heap.objs[Heap.lists[pr_graph.node_list][i]].node_id,
                                     float_lists[ranks][i]>>])
    /\ pr_pc' = "returned"
    /\ UNCHANGED <<funcVars, scanVars, searchVars, indexVars, node_objs, node_lists, node_maps, graph, pr_graph,
                   g_error, before, float_lists, ranks, next_ranks, delta, iteration_count,
                   prev_ranks>>

Calculate == R_Calculate \/ R_Iterate \/ R_Return

GraphOps == G_AddNode \/ G_AddLink \/ G_AddLinks \/ G_AddNodeWithRefs

InitRank == ScanIdle /\ IndexIdle /\ RankIdle /\ FuncIdle /\ SearchIdle

NextRank == GraphOps \/ R_Construct \/ Calculate

SpecRank == InitRank /\ [][NextRank]_vars

\* ------------------------------------------------- the example of __main__
\* connections = [('A', 'B'), ('A', 'D'), ('D', 'B'), ('E', 'B'), ('B', 'C')]
connections == << <<"A", "B">>, <<"A", "D">>, <<"D", "B">>, <<"E", "B">>, <<"B", "C">> >>

\* The orders in which the links of the example can be listed.
ConnectionOrders ==
    { [i \in 1..Len(connections) |-> connections[p[i]]] :
        p \in { q \in [1..Len(connections) -> 1..Len(connections)] :
                  \A i, j \in 1..Len(connections) : i # j => q[i] # q[j] } }

\* graph = Graph(); graph.add_links(connections)
E_AddLinks ==
    /\ pr_pc = "none"
    /\ node_objs = <<>>
    /\ \E links \in ConnectionOrders :
          LET r == add_links(Heap, graph, links)
          IN  SetHeap(r.heap) /\ g_error' = r.err
    /\ UNCHANGED <<funcVars, scanVars, searchVars, indexVars, calcVars, graph, pr_graph, pr_pc, before>>

\* page_rank = PageRank(graph)
E_Construct == node_objs # <<>> /\ R_Construct

NextExample == E_AddLinks \/ E_Construct \/ Calculate

\* The example is a sequential program: once the graph is built, the
\* construction of PageRank and calculate run on.
SpecExample == InitRank /\ [][NextExample]_vars /\ WF_vars(E_Construct \/ Calculate)

\* ================================================ one scan and one search
\* The terms the splitter can produce, the term lists of a file, the page
\* references of a file (none or one) and the queries.
Terms == {"q", "x"}

DocTermLists == { <<>>, <<"x">>, <<"q">>, <<"q", "x">> }

DocRefLists == { <<>> } \cup { <<p>> : p \in NodeIds }

Queries == { <<"q">>, <<"x", "q">> }

\* str.lower() of a token or of a character
lower(token) ==
    IF token = "Q" THEN "q" ELSE IF token = "X" THEN "x" ELSE IF token = "A" THEN "a" ELSE token

\* number of occurrences of term in a list of terms
RECURSIVE term_count(_, _)
term_count(list_of_terms, term) ==
    IF list_of_terms = <<>> THEN 0
    ELSE (IF Head(list_of_terms) = term THEN 1 ELSE 0) + term_count(Tail(list_of_terms), term)

\* "count / length" for every term of the list: the normalised counts of
\* append_document and of search (0: the term is no key of the dict).
term_normals(list_of_terms) ==
    [t \in Terms |->
        IF term_count(list_of_terms, t) = 0 THEN 0
        ELSE (term_count(list_of_terms, t) * Scale) \div Len(list_of_terms)]

\* append_document, "Append overall term counts": one more per occurrence.
overall_term_counts_once(counts, list_of_terms) ==
    [t \in Terms |-> counts[t] + (IF term_count(list_of_terms, t) > 0 THEN 1 ELSE 0)]

overall_term_counts_after(counts, list_of_terms) ==
    [t \in Terms |-> counts[t] + term_count(list_of_terms, t)]

\* TfIdfTable.append_document(doc_name, list_of_terms)
append_document(docs, counts, doc_name, list_of_terms) ==
    [documents |-> Append(docs, [doc_name |-> doc_name, normals |-> term_normals(list_of_terms)]),
     overall_term_counts |-> overall_term_counts_after(counts, list_of_terms)]

\* the product of two floats
times(a, b) ==
    (a \div ScaleRoot) * (b \div ScaleRoot)
    + ((a \div ScaleRoot) * (b % ScaleRoot) + (a % ScaleRoot) * (b \div ScaleRoot)) \div ScaleRoot
    + ((a % ScaleRoot) * (b % ScaleRoot)) \div Scale

\* TfIdfTable.search: the score of one document, summed over the given
\* search terms.
RECURSIVE document_score(_, _, _, _)
document_score(doc, search_term_normals, counts, terms) ==
    IF terms = {} THEN 0
    ELSE LET term == CHOOSE t \in terms : TRUE
             rest == document_score(doc, search_term_normals, counts, terms \ {term})
         IN  IF search_term_normals[term] > 0 /\ doc.normals[term] > 0
             THEN ((search_term_normals[term] + doc.normals[term]) \div counts[term]) + rest
             ELSE rest

\* search_terms = [x.lower() for x in search.split()]
lower_terms(tokens) == [k \in 1..Len(tokens) |-> lower(tokens[k])]

RECURSIVE search_from_all(_, _, _, _)
search_from_all(docs, counts, terms, i) ==
    IF i > Len(docs) THEN <<>>
    ELSE << <<docs[i].doc_name,
              document_score(docs[i], term_normals(lower_terms(terms)), counts, Terms)>> >>
         \o search_from_all(docs, counts, terms, i + 1)

\* TfIdfTable.search(search, threshold=0.0): the list of (doc_name, score)
\* of the documents from the i-th on whose score is above the threshold.
RECURSIVE search_from(_, _, _, _)
search_from(docs, counts, terms, i) ==
    IF i > Len(docs) THEN <<>>
    ELSE LET score == document_score(docs[i], term_normals(lower_terms(terms)), counts, Terms)
         IN  (IF score > 0 THEN << <<docs[i].doc_name, score>> >> ELSE <<>>)
             \o search_from(docs, counts, terms, i + 1)

search(docs, counts, terms) == search_from(docs, counts, terms, 1)

\* sum(score for _, score in items)
RECURSIVE sum_second(_)
sum_second(items) == IF items = <<>> THEN 0 ELSE Head(items)[2] + sum_second(Tail(items))

\* d[k] = v
dict_set(d, k, v) ==
    IF DictHas(d, k)
    THEN [i \in 1..Len(d) |-> IF d[i].key = k THEN [key |-> k, val |-> v] ELSE d[i]]
    ELSE Append(d, [key |-> k, val |-> v])

hasattr_always(ref) == TRUE

\* hasattr(node, 'filename')
hasattr_filename(ref) == node_filename[ref] # 0

\* run_search, "for pagename, rank in rank_scores": the mapping and the
\* sum after the items from the i-th on.
RECURSIVE map_ranks(_, _, _)
map_ranks(rank_scores, acc, i) ==
    IF i > Len(rank_scores) THEN acc
    ELSE LET node == DictVal(node_maps[graph.node_map], rank_scores[i][1])
         IN  IF hasattr_filename(node)
             THEN map_ranks(rank_scores,
                            [sum_ranks |-> acc.sum_ranks + rank_scores[i][2],
                             rank_mappings |-> dict_set(acc.rank_mappings, node_filename[node],
                                                        rank_scores[i][2])],
                            i + 1)
             ELSE map_ranks(rank_scores, acc, i + 1)

RECURSIVE match_from_unweighted(_, _, _, _, _)
match_from_unweighted(scores, mappings, scores_weight, ranks_weight, i) ==
    IF i > Len(scores) THEN <<>>
    ELSE (IF DictHas(mappings, scores[i][1])
          THEN << <<scores[i][1], scores[i][2] + DictVal(mappings, scores[i][1])>> >>
          ELSE <<>>)
         \o match_from_unweighted(scores, mappings, scores_weight, ranks_weight, i + 1)


\* run_search: the list of (filename, match value) of the term scores from
\* the i-th on whose filename is in rank_mappings.
RECURSIVE match_from(_, _, _, _, _)
match_from(scores, mappings, scores_weight, ranks_weight, i) ==
    IF i > Len(scores) THEN <<>>
    ELSE (IF DictHas(mappings, scores[i][1])
          THEN << <<scores[i][1],
                    times(scores_weight, scores[i][2])
                    + times(ranks_weight, DictVal(mappings, scores[i][1]))>> >>
          ELSE <<>>)
         \o match_from(scores, mappings, scores_weight, ranks_weight, i + 1)

\* scan_file for the next file of the project: its terms go to the table,
\* its page and the pages it refers to go to the graph, and the node of the
\* page is bound to the file.
S_ScanFile ==
    /\ s_pc = "scanning"
    /\ Len(documents) < doc_count
    /\ \E pagename \in NodeIds, terms \in DocTermLists, page_refs \in DocRefLists :
          LET filename == Len(documents) + 1
              H == add_node_with_refs(Heap, graph, pagename, page_refs)
              node == DictVal(H.maps[graph.node_map], pagename)
              T == append_document(documents, overall_term_counts, filename, terms)
          IN  /\ documents' = T.documents
              /\ overall_term_counts' = T.overall_term_counts
              /\ appended' = Append(appended, terms)
              /\ SetHeap(H)
              /\ node_filename' =
                    [r \in 1..Len(H.objs) |->
                        IF r = node THEN filename
                        ELSE IF r <= Len(node_filename) THEN node_filename[r] ELSE 0]
    /\ UNCHANGED <<funcVars, scanVars, indexVars, calcVars, graph, pr_graph, pr_pc, g_error, before,
                   search_terms, doc_count, s_pc, term_scores, sum_scores, sum_ranks,
                   rank_mappings, match_scores, matching_files>>

\* run_search up to "Calculate rank scores": the scan has ended (join), the
\* term scores are computed and summed.
RS_TermScores ==
    /\ s_pc = "scanning"
    /\ Len(documents) = doc_count
    /\ term_scores' = search(documents, overall_term_counts, search_terms)
    /\ sum_scores' = sum_second(search(documents, overall_term_counts, search_terms))
    /\ s_pc' = "ranking"
    /\ UNCHANGED <<funcVars, scanVars, indexVars, rankVars, search_terms, doc_count, documents,
                   overall_term_counts, node_filename, sum_ranks, rank_mappings,
                   match_scores, matching_files, appended>>

\* run_search: page_rank = pagerank.PageRank(self._graph)
RS_Construct == s_pc = "ranking" /\ R_Construct

\* run_search from "Prepare mapping of matched filenames to rank value" to
\* matching_files.
RS_Combine ==
    /\ s_pc = "ranking"
    /\ pr_pc = "returned"
    /\ LET m == map_ranks(page_ranks, [sum_ranks |-> 0, rank_mappings |-> <<>>], 1)
           matches == sort_desc(match_from(term_scores, m.rank_mappings,
                                           sum_scores \div 2, m.sum_ranks \div 2, 1))
       IN  /\ sum_ranks' = m.sum_ranks
           /\ rank_mappings' = m.rank_mappings
           /\ match_scores' = matches
           /\ matching_files' = [i \in 1..Len(matches) |-> matches[i][1]]
    /\ s_pc' = "searching"
    /\ UNCHANGED <<funcVars, scanVars, indexVars, rankVars, search_terms, doc_count, documents,
                   overall_term_counts, node_filename, term_scores, sum_scores, appended>>

\* The project has up to MaxDocs files; the user submits one of the queries.
SearchInit ==
    /\ search_terms \in Queries
    /\ doc_count \in 0..MaxDocs
    /\ s_pc = "scanning"
    /\ documents = <<>>
    /\ overall_term_counts = [t \in Terms |-> 0]
    /\ node_filename = <<>>
    /\ term_scores = <<>>
    /\ sum_scores = 0
    /\ sum_ranks = 0
    /\ rank_mappings = <<>>
    /\ match_scores = <<>>
    /\ matching_files = <<>>
    /\ appended = <<>>

InitSearch == ScanIdle /\ IndexIdle /\ RankIdle /\ FuncIdle /\ SearchInit

NextSearch == S_ScanFile \/ RS_TermScores \/ RS_Construct \/ Calculate \/ RS_Combine

SpecSearch == InitSearch /\ [][NextSearch]_vars

\* ------------------------------------------------------- the tf-idf table
\* The table used on its own: documents are appended and queries are
\* searched in any order.  cat and dog of the example are "x" and "q".
MaxTableDocs == 3

TableTermLists == { <<>>, <<"x">>, <<"q">>, <<"x", "q">>, <<"q", "q">> }

TableQueries == { <<>>, <<"q">>, <<"Q">>, <<"x", "q">> }

\* idf_table.append_document(doc_name, list_of_terms)
T_Append ==
    /\ s_pc \in {"table", "searched"}
    /\ Len(documents) < MaxTableDocs
    /\ \E list_of_terms \in TableTermLists :
          LET T == append_document(documents, overall_term_counts, Len(documents) + 1,
                                   list_of_terms)
          IN  /\ documents' = T.documents
              /\ overall_term_counts' = T.overall_term_counts
              /\ appended' = Append(appended, list_of_terms)
    /\ s_pc' = "table"
    /\ UNCHANGED <<funcVars, scanVars, indexVars, rankVars, search_terms, doc_count, node_filename,
                   term_scores, sum_scores, sum_ranks, rank_mappings, match_scores,
                   matching_files>>

\* term_scores = idf_table.search(search)
T_Search ==
    /\ s_pc \in {"table", "searched"}
    /\ \E tokens \in TableQueries :
          /\ search_terms' = tokens
          /\ term_scores' = search(documents, overall_term_counts, tokens)
    /\ s_pc' = "searched"
    /\ UNCHANGED <<funcVars, scanVars, indexVars, rankVars, doc_count, documents, overall_term_counts,
                   node_filename, sum_scores, sum_ranks, rank_mappings, match_scores,
                   matching_files, appended>>

TableInit ==
    /\ search_terms = <<>>
    /\ doc_count = 0
    /\ s_pc = "table"
    /\ documents = <<>>
    /\ overall_term_counts = [t \in Terms |-> 0]
    /\ node_filename = <<>>
    /\ term_scores = <<>>
    /\ sum_scores = 0
    /\ sum_ranks = 0
    /\ rank_mappings = <<>>
    /\ match_scores = <<>>
    /\ matching_files = <<>>
    /\ appended = <<>>

InitTable == ScanIdle /\ IndexIdle /\ RankIdle /\ FuncIdle /\ TableInit

NextTable == T_Append \/ T_Search

SpecTable == InitTable /\ [][NextTable]_vars


\* ------------------------------------------------ _search_file on its own
\* One call of _search_file on a file of up to MaxFileLines lines, under
\* every combination of the settings it reads.
MaxFileLines == 2

SearchFileSettings == { st \in SettingsSet : ~st.show_warning_size_skip }

\* "for enc in self.encodings: try: ... except: continue": the attempt with
\* the next encoding raises part-way; ret keeps what the attempt added.
SearchFile_Except ==
    /\ sf_pc = "for"
    /\ sf_enc <= NumEncodings
    /\ LET r == read_attempt(sf_settings, sf_ret, sf_file.lines, sf_file.failAt[sf_enc], 1)
       IN  /\ r.how = "except"
           /\ sf_ret' = r.ret
           /\ sf_examined' = Append(sf_examined, r.tested)
    /\ sf_enc' = sf_enc + 1
    /\ UNCHANGED <<restartVars, scanVars, indexVars, rankVars, searchVars, limitVars, readLinesVars, sf_settings, sf_file, sf_pc>>

\* "if self.skip_binary and '\0' in line_content: ... return ret"
SearchFile_Binary ==
    /\ sf_pc = "for"
    /\ sf_enc <= NumEncodings
    /\ LET r == read_attempt(sf_settings, sf_ret, sf_file.lines, sf_file.failAt[sf_enc], 1)
       IN  /\ r.how = "return"
           /\ sf_ret' = r.ret
           /\ sf_examined' = Append(sf_examined, r.tested)
    /\ sf_pc' = "binary"
    /\ UNCHANGED <<restartVars, scanVars, indexVars, rankVars, searchVars, limitVars, readLinesVars, sf_settings, sf_file, sf_enc>>

\* "else: return ret": the attempt read the file to its end.
SearchFile_Else ==
    /\ sf_pc = "for"
    /\ sf_enc <= NumEncodings
    /\ LET r == read_attempt(sf_settings, sf_ret, sf_file.lines, sf_file.failAt[sf_enc], 1)
       IN  /\ r.how = "else"
           /\ sf_ret' = r.ret
           /\ sf_examined' = Append(sf_examined, r.tested)
    /\ sf_pc' = "read"
    /\ UNCHANGED <<restartVars, scanVars, indexVars, rankVars, searchVars, limitVars, readLinesVars, sf_settings, sf_file, sf_enc>>

\* After the loop: "if self.show_warning_on_open_fail: ret[0] = ...; return ret"
SearchFile_OpenFail ==
    /\ sf_pc = "for"
    /\ sf_enc > NumEncodings
    /\ sf_ret' = IF sf_settings.show_warning_on_open_fail THEN sf_ret \cup {0} ELSE sf_ret
    /\ sf_pc' = "failed"
    /\ UNCHANGED <<restartVars, scanVars, indexVars, rankVars, searchVars, limitVars, readLinesVars, sf_settings, sf_file, sf_enc,
                   sf_examined>>

SearchFileInit ==
    /\ sf_settings \in SearchFileSettings
    /\ sf_file \in FilesOf(LinesUpTo(MaxFileLines))
    /\ sf_pc = "for"
    /\ sf_enc = 1
    /\ sf_ret = {}
    /\ sf_examined = <<>>

InitSearchFile ==
    /\ ScanIdle /\ IndexIdle /\ RankIdle /\ SearchIdle
    /\ LimitIdle /\ ReadLinesIdle /\ RestartIdle /\ SearchFileInit

NextSearchFile == SearchFile_Except \/ SearchFile_Binary \/ SearchFile_Else \/ SearchFile_OpenFail

SpecSearchFile == InitSearchFile /\ [][NextSearchFile]_vars


\* ---------------------------------------- a matching line and _limit_line
\* A line is a sequence of characters, with or without the newline the
\* file iterator leaves at its end; "A" is the upper case of "a".
MaxChars == 5
MaxLineLen == 2

Chars == {"a", "A", "-"}

LineTexts ==
    LET bodies == UNION {[1..n -> Chars] : n \in 0..MaxChars}
    IN  bodies \cup { Append(b, "\n") : b \in bodies }

TargetStrings == { <<"a">>, <<"A">>, <<"a", "-">> }

ellipsis == "[...]"

\* str.lower()
lower_str(str) == [i \in 1..Len(str) |-> lower(str[i])]

\* str.find(sub): the lowest index (from 0) where sub starts, -1 if none
find(str, sub) ==
    LET at == { i \in 0..(Len(str) - Len(sub)) : SubSeq(str, i + 1, i + Len(sub)) = sub }
    IN  IF at = {} THEN -1 ELSE CHOOSE i \in at : \A j \in at : i <= j

\* "sub in str"
contains(str, sub) == find(str, sub) # -1

\* str[start:end] for 0 <= start and 0 <= end <= len(str)
slice(str, start, end) == SubSeq(str, start + 1, end)

\* FileSearcherThread._limit_line(line), with its locals start and end
limit_line(line, target_string, max_line_len) ==
    LET single_side_len == max_line_len \div 2
        loc == find(lower_str(line), target_string)
        start == IF loc - single_side_len < 0 THEN 0 ELSE loc - single_side_len
        end0 == loc + Len(target_string) + single_side_len
        end == IF end0 >= Len(line) THEN Len(line) - 1 ELSE end0
    IN  [start |-> start,
         end |-> end,
         limited_line |-> (IF start # 0 THEN <<ellipsis>> ELSE <<>>)
                          \o slice(line, start, end)
                          \o (IF end # Len(line) - 1 THEN <<ellipsis>> ELSE <<>>)]

\* "if self._target_string.lower() in line_content.lower()" is false
L_NoMatch ==
    /\ ll_pc = "line"
    /\ ~contains(lower_str(ll_line), lower_str(ll_target_string))
    /\ ll_pc' = "nomatch"
    /\ UNCHANGED <<restartVars, scanVars, indexVars, rankVars, searchVars, searchFileVars, readLinesVars,
                   ll_target_string, ll_max_line_len, ll_line, ll_start, ll_end,
                   ll_line_content>>

\* The line matches and is not longer than max_line_len + target_len:
\* "ret[line_num] = line_content"
L_Keep ==
    /\ ll_pc = "line"
    /\ contains(lower_str(ll_line), lower_str(ll_target_string))
    /\ ~(Len(ll_line) > ll_max_line_len + Len(ll_target_string))
    /\ ll_line_content' = ll_line
    /\ ll_pc' = "kept"
    /\ UNCHANGED <<restartVars, scanVars, indexVars, rankVars, searchVars, searchFileVars, readLinesVars,
                   ll_target_string, ll_max_line_len, ll_line, ll_start, ll_end>>

\* The line matches and is longer:
\* "line_content = self._limit_line(line_content); ret[line_num] = line_content"
L_Limit ==
    /\ ll_pc = "line"
    /\ contains(lower_str(ll_line), lower_str(ll_target_string))
    /\ Len(ll_line) > ll_max_line_len + Len(ll_target_string)
    /\ LET r == limit_line(ll_line, ll_target_string, ll_max_line_len)
       IN  /\ ll_start' = r.start
           /\ ll_end' = r.end
           /\ ll_line_content' = r.limited_line
    /\ ll_pc' = "limited"
    /\ UNCHANGED <<restartVars, scanVars, indexVars, rankVars, searchVars, searchFileVars, readLinesVars,
                   ll_target_string, ll_max_line_len, ll_line>>

LimitInit ==
    /\ ll_target_string \in TargetStrings
    /\ ll_max_line_len \in 0..MaxLineLen
    /\ ll_line \in LineTexts
    /\ ll_pc = "line"
    /\ ll_start = 0
    /\ ll_end = 0
    /\ ll_line_content = <<>>

InitLimit ==
    /\ ScanIdle /\ IndexIdle /\ RankIdle /\ SearchIdle
    /\ SearchFileIdle /\ ReadLinesIdle /\ RestartIdle /\ LimitInit

NextLimit == L_NoMatch \/ L_Keep \/ L_Limit

SpecLimit == InitLimit /\ [][NextLimit]_vars


\* ------------------------------------------ FileScanner.read_lines on its own
\* The lines of a file the indexing scanner reads: text or a line with a
\* null byte.  A file left out by _should_include_file is not opened.
ScanLineKinds == {"text", "nul"}

ScanFiles ==
    LET linesSet == UNION {[1..n -> ScanLineKinds] : n \in 0..MaxFileLines}
    IN  UNION {[lines : {l}, failAt : [1..NumEncodings -> 0..(Len(l) + 1)], skip : {"no"}]
                  : l \in linesSet}
        \cup [lines : {<<>>}, failAt : {[e \in 1..NumEncodings |-> 0]}, skip : {"ext", "size"}]

\* "if self._should_include_file(filename)" is false
RL_Excluded ==
    /\ rl_pc = "start"
    /\ rl_file.skip # "no"
    /\ rl_warnings' = IF rl_file.skip = "size" /\ rl_settings.show_warning_size_skip
                      THEN Append(rl_warnings, "size") ELSE rl_warnings
    /\ rl_pc' = "done"
    /\ UNCHANGED <<restartVars, scanVars, indexVars, rankVars, searchVars, searchFileVars, limitVars,
                   rl_settings, rl_file, rl_enc, rl_line_no, rl_yielded>>

\* "for enc in self.encodings: ... open(filename, "r", encoding=enc); line_no = 0"
RL_Open ==
    /\ \/ rl_pc = "start" /\ rl_file.skip = "no"
       \/ rl_pc = "for"
    /\ rl_enc <= NumEncodings
    /\ rl_line_no' = 0
    /\ rl_pc' = "while"
    /\ UNCHANGED <<restartVars, scanVars, indexVars, rankVars, searchVars, searchFileVars, limitVars,
                   rl_settings, rl_file, rl_enc, rl_yielded, rl_warnings>>

\* f.readline() raises UnicodeDecodeError: "continue" with the next encoding
RL_DecodeError ==
    /\ rl_pc = "while"
    /\ rl_file.failAt[rl_enc] = rl_line_no + 1
    /\ rl_enc' = rl_enc + 1
    /\ rl_pc' = "for"
    /\ UNCHANGED <<restartVars, scanVars, indexVars, rankVars, searchVars, searchFileVars, limitVars,
                   rl_settings, rl_file, rl_line_no, rl_yielded, rl_warnings>>

\* "if not line: break" and the "return" after the loop
RL_EndOfFile ==
    /\ rl_pc = "while"
    /\ rl_file.failAt[rl_enc] # rl_line_no + 1
    /\ rl_line_no + 1 > Len(rl_file.lines)
    /\ rl_line_no' = rl_line_no + 1
    /\ rl_pc' = "done"
    /\ UNCHANGED <<restartVars, scanVars, indexVars, rankVars, searchVars, searchFileVars, limitVars,
                   rl_settings, rl_file, rl_enc, rl_yielded, rl_warnings>>

\* "else: yield (line_no, line)"
RL_Yield ==
    /\ rl_pc = "while"
    /\ rl_file.failAt[rl_enc] # rl_line_no + 1
    /\ rl_line_no + 1 <= Len(rl_file.lines)
    /\ ~(rl_settings.skip_binary /\ rl_file.lines[rl_line_no + 1] = "nul")
    /\ rl_line_no' = rl_line_no + 1
    /\ rl_yielded' = Append(rl_yielded, <<rl_enc, rl_line_no + 1>>)
    /\ UNCHANGED <<restartVars, scanVars, indexVars, rankVars, searchVars, searchFileVars, limitVars,
                   rl_settings, rl_file, rl_pc, rl_enc, rl_warnings>>

\* "if self.skip_binary and '\0' in line: if self.show_warning_binary_skip:
\* self.warnings.append(...); return"
RL_BinaryWarned ==
    /\ rl_pc = "while"
    /\ rl_file.failAt[rl_enc] # rl_line_no + 1
    /\ rl_line_no + 1 <= Len(rl_file.lines)
    /\ rl_settings.skip_binary /\ rl_file.lines[rl_line_no + 1] = "nul"
    /\ rl_settings.show_warning_binary_skip
    /\ rl_line_no' = rl_line_no + 1
    /\ rl_warnings' = Append(rl_warnings, "binary")
    /\ rl_pc' = "done"
    /\ UNCHANGED <<restartVars, scanVars, indexVars, rankVars, searchVars, searchFileVars, limitVars,
                   rl_settings, rl_file, rl_enc, rl_yielded>>

\* The same test with show_warning_binary_skip false: the inner "if" is not
\* taken, its "return" is not reached, and the while loop goes on.
RL_BinarySilent ==
    /\ rl_pc = "while"
    /\ rl_file.failAt[rl_enc] # rl_line_no + 1
    /\ rl_line_no + 1 <= Len(rl_file.lines)
    /\ rl_settings.skip_binary /\ rl_file.lines[rl_line_no + 1] = "nul"
    /\ ~rl_settings.show_warning_binary_skip
    /\ rl_line_no' = rl_line_no + 1
    /\ UNCHANGED <<restartVars, scanVars, indexVars, rankVars, searchVars, searchFileVars, limitVars,
                   rl_settings, rl_file, rl_pc, rl_enc, rl_yielded, rl_warnings>>

\* After the loop over the encodings: "Unable to read file"
RL_Unreadable ==
    /\ rl_pc = "for"
    /\ rl_enc > NumEncodings
    /\ rl_warnings' = IF rl_settings.show_warning_on_open_fail
                      THEN Append(rl_warnings, "open") ELSE rl_warnings
    /\ rl_pc' = "done"
    /\ UNCHANGED <<restartVars, scanVars, indexVars, rankVars, searchVars, searchFileVars, limitVars,
                   rl_settings, rl_file, rl_enc, rl_line_no, rl_yielded>>

ReadLinesInit ==
    /\ rl_settings \in SettingsSet
    /\ rl_file \in ScanFiles
    /\ rl_pc = "start"
    /\ rl_enc = 1
    /\ rl_line_no = 0
    /\ rl_yielded = <<>>
    /\ rl_warnings = <<>>

InitReadLines ==
    /\ ScanIdle /\ IndexIdle /\ RankIdle /\ SearchIdle
    /\ SearchFileIdle /\ LimitIdle /\ RestartIdle /\ ReadLinesInit

NextReadLines ==
    \/ RL_Excluded \/ RL_Open \/ RL_DecodeError \/ RL_EndOfFile
    \/ RL_Yield \/ RL_BinaryWarned \/ RL_BinarySilent \/ RL_Unreadable

SpecReadLines == InitReadLines /\ [][NextReadLines]_vars


\* --------------------------------------------- searches started one after another
\* The user submits up to MaxSessions queries; the result view stays open
\* and no hit limit is set.  A thread is its position, the number of files
\* it still has to visit and the queue it was given; a queue is its number
\* of pending items and of unfinished tasks.
MaxSessions == 2

restartFrame == <<scanVars, indexVars, rankVars, searchVars, searchFileVars, limitVars,
                  readLinesVars>>

\* Thread.is_alive()
isAlive(t) == threads[t].pc # "done"

\* Queue.put(item) on queue q
put_on(q) ==
    queues' = [queues EXCEPT ![q] = [pending |-> @.pending + 1,
                                     unfinished_tasks |-> @.unfinished_tasks + 1]]

\* run_search, "Init member vars for new search": self.result_queue = queue.Queue()
U_NewQueue ==
    /\ ui_pc = "panel"
    /\ Len(queues) < MaxSessions
    /\ queues' = Append(queues, [pending |-> 0, unfinished_tasks |-> 0])
    /\ cur_queue' = Len(queues) + 1
    /\ ui_pc' = "scoring"
    /\ UNCHANGED <<restartFrame, threads, cur_thread, display_loops, taken>>

\* run_search: self.search_thread = FileSearcherThread(..., self.result_queue),
\* start(), and set_timeout_async(self.display_search_results, 1)
U_StartThread ==
    /\ ui_pc = "scoring"
    /\ \E todo \in 0..MaxTotalFiles :
          threads' = Append(threads, [pc |-> "loop", todo |-> todo, queue |-> cur_queue])
    /\ cur_thread' = Len(threads) + 1
    /\ display_loops' = Append(display_loops, "queued")
    /\ ui_pc' = "panel"
    /\ UNCHANGED <<restartFrame, queues, cur_queue, taken>>

\* FileSearcherThread.run of thread t: one file of the walk, with or
\* without a put on the thread's queue
T_File(t) ==
    /\ threads[t].pc = "loop"
    /\ threads[t].todo > 0
    /\ threads' = [threads EXCEPT ![t].todo = @ - 1]
    /\ \/ put_on(threads[t].queue)
       \/ UNCHANGED queues
    /\ UNCHANGED <<restartFrame, cur_queue, cur_thread, ui_pc, display_loops, taken>>

\* "Send a final update on files searched"
T_Final(t) ==
    /\ threads[t].pc = "loop"
    /\ threads[t].todo = 0
    /\ put_on(threads[t].queue)
    /\ threads' = [threads EXCEPT ![t].pc = "join"]
    /\ UNCHANGED <<restartFrame, cur_queue, cur_thread, ui_pc, display_loops, taken>>

\* "self._result_queue.join()" returns
T_Join(t) ==
    /\ threads[t].pc = "join"
    /\ queues[threads[t].queue].unfinished_tasks = 0
    /\ threads' = [threads EXCEPT ![t].pc = "done"]
    /\ UNCHANGED <<restartFrame, queues, cur_queue, cur_thread, ui_pc, display_loops, taken>>

Thread(t) == T_File(t) \/ T_Final(t) \/ T_Join(t)

\* The calls of display_search_results run one after the other on the
\* thread of set_timeout_async: call k runs when the calls before it ended.
Ended(k) == display_loops[k] \in {"finished", "crashed"}

Running(k) == ~Ended(k) /\ \A j \in 1..(k - 1) : Ended(j)

\* "while self.search_thread.isAlive() or (self.result_queue.empty() == False)"
D_LoopTest(k) ==
    /\ Running(k)
    /\ display_loops[k] \in {"queued", "loop"}
    /\ display_loops' =
          [display_loops EXCEPT ![k] =
              IF isAlive(cur_thread) \/ queues[cur_queue].pending > 0 THEN "poll"
              ELSE "finished"]
    /\ UNCHANGED <<restartFrame, threads, queues, cur_queue, cur_thread, ui_pc, taken>>

\* "if not self.result_queue.empty(): result = self.result_queue.get()"
D_Poll(k) ==
    /\ Running(k)
    /\ display_loops[k] = "poll"
    /\ IF queues[cur_queue].pending = 0
       THEN /\ display_loops' = [display_loops EXCEPT ![k] = "loop"]
            /\ UNCHANGED <<queues, taken>>
       ELSE /\ queues' = [queues EXCEPT ![cur_queue].pending = @ - 1]
            /\ taken' = Append(taken, <<k, cur_queue>>)
            /\ display_loops' = [display_loops EXCEPT ![k] = "ack"]
    /\ UNCHANGED <<restartFrame, threads, cur_queue, cur_thread, ui_pc>>

\* "self.result_queue.task_done()": ValueError when the queue has no
\* unfinished task
D_Ack(k) ==
    /\ Running(k)
    /\ display_loops[k] = "ack"
    /\ IF queues[cur_queue].unfinished_tasks = 0
       THEN /\ display_loops' = [display_loops EXCEPT ![k] = "crashed"]
            /\ UNCHANGED queues
       ELSE /\ queues' = [queues EXCEPT ![cur_queue].unfinished_tasks = @ - 1]
            /\ display_loops' = [display_loops EXCEPT ![k] = "loop"]
    /\ UNCHANGED <<restartFrame, threads, cur_queue, cur_thread, ui_pc, taken>>

Display == \E k \in 1..Len(display_loops) : D_LoopTest(k) \/ D_Poll(k) \/ D_Ack(k)

RestartInit ==
    /\ threads = <<>>
    /\ queues = <<>>
    /\ cur_queue = 0
    /\ cur_thread = 0
    /\ ui_pc = "panel"
    /\ display_loops = <<>>
    /\ taken = <<>>

InitRestart ==
    /\ ScanIdle /\ IndexIdle /\ RankIdle /\ SearchIdle
    /\ SearchFileIdle /\ LimitIdle /\ ReadLinesIdle /\ RestartInit

NextRestart ==
    \/ U_NewQueue
    \/ U_StartThread
    \/ \E t \in 1..Len(threads) : Thread(t)
    \/ Display

\* The threads and the thread of set_timeout_async keep being scheduled, and
\* a run_search that has begun runs to its end.
SpecRestart ==
    /\ InitRestart
    /\ [][NextRestart]_vars
    /\ \A t \in 1..MaxSessions : WF_vars(t <= Len(threads) /\ Thread(t))
    /\ WF_vars(Display)
    /\ WF_vars(U_StartThread)


\* ---------------------------------------------------------- ranking claims
\* C10: after PageRank(graph) has been constructed, every node of the
\* original graph has the in_links and the out_counts it had before.
C10_OriginalGraphUnchanged ==
    pr_pc = "built" =>
        \A r \in 1..Len(before) :
            /\ node_objs[r].in_links = before[r].in_links
            /\ node_objs[r].out_counts = before[r].out_counts

\* The reference synchronous power iteration on the graph of the PageRank
\* object: one step computes every new rank from the previous vector, and
\* the iteration stops at the first step whose sum of absolute differences
\* is at or below epsilon.
reference_step(H, g, rk) ==
    [i \in 1..GraphLen(H, g) |->
        damping_per_page(GraphLen(H, g))
        + times_damping(sum_over_in_links(H, g, rk, H.objs[H.lists[g.node_list][i]].in_links))]

RECURSIVE reference_iteration(_, _, _, _)
reference_iteration(H, g, rk, n) ==
    LET nx == reference_step(H, g, rk)
    IN  IF sum_abs_diff(nx, rk, 1) <= epsilon
        THEN [ranks |-> nx, iteration_count |-> n + 1]
        ELSE reference_iteration(H, g, nx, n + 1)

reference_result ==
    reference_iteration(Heap, pr_graph,
                        [i \in 1..GraphLen(Heap, pr_graph) |-> Scale \div GraphLen(Heap, pr_graph)], 0)

\* C11: what calculate returns is the result of the reference synchronous
\* power iteration: the ranks of its last step, sorted, and the number of
\* its steps.
C11_MatchesReference ==
    pr_pc = "returned" =>
        /\ page_ranks = sort_desc([i \in 1..GraphLen(Heap, pr_graph) |->
                                     <<Heap.objs[Heap.lists[pr_graph.node_list][i]].node_id,
                                       reference_result.ranks[i]>>])
        /\ iteration_count = reference_result.iteration_count

\* The first and the second page of the list calculate returned.
first_page == page_ranks[1][1]

\* C12 (as stated): for the graph built from the links of the example,
\* B is the first element of the list calculate returns.
C12_ExampleRanksBFirst == pr_pc = "returned" => first_page = "B"

\* C12 (amended): for the graph built from the links of the example, in
\* whatever order they are listed, calculate terminates after two passes
\* and the returned list starts with C, followed by B.
C12_ExampleRanksCFirst ==
    /\ [](pr_pc # "ZeroDivisionError")
    /\ [](pr_pc = "returned" =>
            /\ iteration_count = 2
            /\ Len(page_ranks) = 5
            /\ first_page = "C"
            /\ page_ranks[2][1] = "B"
            /\ page_ranks[1][2] > page_ranks[2][2])
    /\ (node_objs # <<>> ~> pr_pc = "returned")

C12_Witness ==
    /\ pr_pc = "returned"
    /\ Len(page_ranks) = 5
    /\ first_page = "C"
    /\ node_objs[1].node_id = "A" /\ node_objs[2].node_id = "B" /\ node_objs[3].node_id = "D"

\* The nodes reached from index i by following the single in-link k times,
\* in the graph as it was when PageRank(graph) was called.
RECURSIVE predecessors(_, _)
predecessors(i, k) ==
    IF k = 0 THEN {}
    ELSE LET j == CHOOSE x \in before[i + 1].in_links : TRUE
         IN  {j} \cup predecessors(j, k - 1)

\* The graph handed to PageRank was a single node without links.
WasSingleNode == Len(before) = 1 /\ before[1].in_links = {} /\ before[1].out_counts = 0

\* The graph handed to PageRank was a directed cycle through all its nodes.
WasCycle ==
    /\ Len(before) >= 2
    /\ \A r \in 1..Len(before) :
          before[r].out_counts = 1 /\ Cardinality(before[r].in_links) = 1
    /\ predecessors(0, Len(before)) = 0..(Len(before) - 1)

\* C13: for a single node and for a directed cycle of N >= 2 nodes,
\* calculate returns the rank 1/N for every node (up to the tolerance
\* epsilon) and reports exactly one iteration.
C13_UniformRanksInOnePass ==
    (pr_pc = "returned" /\ (WasSingleNode \/ WasCycle)) =>
        /\ iteration_count = 1
        /\ Len(page_ranks) = Len(before)
        /\ \A i \in 1..Len(page_ranks) :
              abs(page_ranks[i][2] - (Scale \div Len(before))) <= epsilon

C13_Witness ==
    /\ pr_pc = "returned"
    /\ WasCycle
    /\ Len(before) = MaxNodes
    /\ iteration_count = 1

\* The sum of the ranks of the returned list from position i on.
RECURSIVE sum_of_ranks(_, _)
sum_of_ranks(items, i) ==
    IF i > Len(items) THEN 0 ELSE items[i][2] + sum_of_ranks(items, i + 1)

\* C14: the ranks calculate returns for a non-empty graph sum to 1, up to
\* the convergence tolerance epsilon.
C14_RanksSumToOne ==
    pr_pc = "returned" => abs(sum_of_ranks(page_ranks, 1) - Scale) <= epsilon

\* The references of the nodes of the graph held by the PageRank object.
pr_nodes == node_lists[pr_graph.node_list]

\* The indices of the nodes that had no out-link when PageRank(graph) was
\* called.
sink_indices == { before[r].index : r \in { q \in 1..Len(before) : before[q].out_counts = 0 } }

\* C15: after the construction of PageRank, every node whose out-degree
\* was 0 has out_counts equal to the node count and its index is in the
\* in_links of every node; a node whose out-degree was greater than 0 keeps
\* its out_counts, and the only in-links any node gains are those of sinks.
C15_SinkLinking ==
    pr_pc \in {"built", "loop", "returned"} =>
        \A i \in 1..Len(pr_nodes) :
            LET r == pr_nodes[i]
            IN  /\ before[r].out_counts = 0 =>
                      /\ node_objs[r].out_counts = Len(pr_nodes)
                      /\ \A j \in 1..Len(pr_nodes) :
                            before[r].index \in node_objs[pr_nodes[j]].in_links
                /\ before[r].out_counts > 0 => node_objs[r].out_counts = before[r].out_counts
                /\ before[r].in_links \subseteq node_objs[r].in_links
                /\ (node_objs[r].in_links \ before[r].in_links) \subseteq sink_indices

C15_Witness ==
    /\ pr_pc = "built"
    /\ Len(pr_nodes) = MaxNodes
    /\ sink_indices # {}
    /\ \E r \in 1..Len(before) : before[r].out_counts > 0
    /\ \E r \in 1..Len(before) : node_objs[r].in_links # before[r].in_links

\* C17: no call of add_node, add_link, add_links or add_node_with_refs
\* raises an exception, whatever ids it is given.
C17_ConstructionNeverRaises == g_error = "none"

\* The node list and the node dict of the caller's graph.
graph_list == node_lists[graph.node_list]
graph_dict == node_maps[graph.node_map]

\* Indices are the dense range [0, len(graph)) in list order, every id is
\* the key of exactly one item, bound to the node of that id, and add_node
\* of an id that is present changes nothing.
DenseIndices ==
    /\ \A i \in 1..Len(graph_list) : node_objs[graph_list[i]].index = i - 1
    /\ Len(graph_dict) = Len(graph_list)
    /\ \A i, j \in 1..Len(graph_dict) :
          (graph_dict[i].key = graph_dict[j].key \/ graph_dict[i].val = graph_dict[j].val)
              => i = j
    /\ \A i \in 1..Len(graph_dict) :
          /\ node_objs[graph_dict[i].val].node_id = graph_dict[i].key
          /\ \E j \in 1..Len(graph_list) : graph_list[j] = graph_dict[i].val
    /\ \A id \in NodeIds :
          DictHas(graph_dict, id) => add_node(Heap, graph, id) = Heap

\* No step changes the index or the id of a node or takes a node away.
IndicesStable ==
    /\ Len(node_objs') >= Len(node_objs)
    /\ IsPrefix(graph_list, graph_list')
    /\ \A r \in 1..Len(node_objs) :
          /\ node_objs'[r].index = node_objs[r].index
          /\ node_objs'[r].node_id = node_objs[r].node_id

\* C18: after any sequence of add_node, add_link, add_links and
\* add_node_with_refs calls the node indices are the dense range
\* [0, len(graph)) in list order, an index never changes once assigned,
\* each id maps to exactly one node, and add_node of an id already present
\* changes nothing.
C18_DenseStableIndices == []DenseIndices /\ [][IndicesStable]_vars

C18_Witness ==
    /\ pr_pc = "none"
    /\ g_error = "none"
    /\ Len(graph_list) = MaxNodes
    /\ \E r \in 1..Len(node_objs) : Cardinality(node_objs[r].in_links) = 2
    /\ node_objs[1].node_id # 1

\* The link s -> t is present in heap H: both ids are nodes of the graph
\* and the index of s is in the in_links of t.
HasLink(H, s, t) ==
    /\ DictHas(H.maps[graph.node_map], s)
    /\ DictHas(H.maps[graph.node_map], t)
    /\ H.objs[DictVal(H.maps[graph.node_map], s)].index
          \in H.objs[DictVal(H.maps[graph.node_map], t)].in_links

\* C19: in every state a sequence of calls can reach, add_link(s, s)
\* changes nothing and add_link(s, t) for a link that is present changes
\* nothing, so a second call for the same pair changes nothing; the first
\* call for an absent link from a node s increments s.out_counts by one and
\* adds the index of s to t.in_links.
C19_LinkAddedOnce ==
    pr_pc = "none" => \A s, t \in NodeIds :
        LET first == add_link(Heap, graph, s, t)
            second == add_link(first.heap, graph, s, t)
        IN  /\ s = t => first.heap = Heap
            /\ HasLink(Heap, s, t) => first.heap = Heap
            /\ second.heap = first.heap
            /\ (s # t /\ DictHas(graph_dict, s) /\ ~HasLink(Heap, s, t)) =>
                  /\ HasLink(first.heap, s, t)
                  /\ first.heap.objs[DictVal(graph_dict, s)].out_counts
                        = node_objs[DictVal(graph_dict, s)].out_counts + 1

C19_Witness ==
    /\ pr_pc = "none"
    /\ g_error = "none"
    /\ HasLink(Heap, 1, 2)
    /\ ~HasLink(Heap, 2, 1)
    /\ node_objs[DictVal(graph_dict, 1)].out_counts = 2

\* C16: whenever run_search runs the ranker, the graph has at least one
\* node and calculate raises no ZeroDivisionError.
C16_RankerHasNodes ==
    (s_pc = "ranking" /\ pr_pc # "none") =>
        (GraphLen(Heap, pr_graph) >= 1 /\ pr_pc # "ZeroDivisionError")

\* The files of the term-score list, and the files bound to a node.
scored_files == { term_scores[i][1] : i \in 1..Len(term_scores) }
bound_files == { node_filename[r] : r \in { q \in 1..Len(node_objs) : node_filename[q] # 0 } }

\* the sum of the returned ranks of the nodes that are bound to a file
RECURSIVE sum_bound_ranks(_)
sum_bound_ranks(i) ==
    IF i > Len(page_ranks) THEN 0
    ELSE (IF node_filename[DictVal(graph_dict, page_ranks[i][1])] # 0
          THEN page_ranks[i][2] ELSE 0)
         + sum_bound_ranks(i + 1)

\* C20: the ranked candidate list holds exactly the files that are both in
\* the term-score list and bound to a node of the graph, each once; the
\* rank mapping has exactly the bound files as keys, and sum_ranks is the
\* sum of the ranks of the nodes bound to a file.
C20_RankedListIsIntersection ==
    s_pc = "searching" =>
        /\ { matching_files[i] : i \in 1..Len(matching_files) } = scored_files \cap bound_files
        /\ Cardinality(scored_files \cap bound_files) = Len(matching_files)
        /\ { rank_mappings[i].key : i \in 1..Len(rank_mappings) } = bound_files
        /\ sum_ranks = sum_bound_ranks(1)

C20_Witness ==
    /\ s_pc = "searching"
    /\ matching_files # <<>>
    /\ scored_files \ bound_files # {}
    /\ bound_files \ scored_files = {}
    /\ \E r \in 1..Len(node_objs) : node_filename[r] = 0

\* ----------------------------------------------------------- search claims
\* The position of a file in the term-score list, and the value the
\* combiner is to give it.
term_score_index(filename) ==
    CHOOSE i \in 1..Len(term_scores) : term_scores[i][1] = filename

combined_value(filename) ==
    times(sum_scores \div 2, term_scores[term_score_index(filename)][2])
    + times(sum_ranks \div 2, DictVal(rank_mappings, filename))

\* C21: the ranked list carries for every path the combined value
\* 0.5*sumScores*termScore + 0.5*sumRanks*rankValue, is ordered by
\* non-increasing combined value, and two paths of equal value are in the
\* order they have in the term-score list.
C21_RankedListOrder ==
    s_pc = "searching" =>
        /\ \A i \in 1..Len(match_scores) :
              match_scores[i][2] = combined_value(match_scores[i][1])
        /\ \A i, j \in 1..Len(match_scores) :
              i < j =>
                 /\ match_scores[i][2] >= match_scores[j][2]
                 /\ match_scores[i][2] = match_scores[j][2] =>
                       term_score_index(match_scores[i][1])
                       < term_score_index(match_scores[j][1])
        /\ matching_files = [i \in 1..Len(match_scores) |-> match_scores[i][1]]

\* Two ranked files, the later one of the term-score list first.
C21_Witness ==
    /\ s_pc = "searching"
    /\ Len(match_scores) = 2
    /\ match_scores[1][2] > match_scores[2][2]
    /\ term_score_index(match_scores[1][1]) > term_score_index(match_scores[2][1])

\* Two ranked files of equal combined value.
C21_TieReached ==
    /\ s_pc = "searching"
    /\ Len(match_scores) = 2
    /\ match_scores[1][2] = match_scores[2][2]

\* ------------------------------------------------------ tf-idf claims
\* The number of occurrences of a term in a token list, the terms the i-th
\* appended document shares with the lower-cased query, and the score the
\* claim gives the document.
occurrences(tokens, t) == Cardinality({ k \in 1..Len(tokens) : tokens[k] = t })

RECURSIVE total_occurrences(_, _, _)
total_occurrences(lists, t, i) ==
    IF i > Len(lists) THEN 0
    ELSE occurrences(lists[i], t) + total_occurrences(lists, t, i + 1)

query_terms == [k \in 1..Len(search_terms) |-> lower(search_terms[k])]

shared_terms(i) ==
    { t \in Terms : occurrences(appended[i], t) > 0 /\ occurrences(query_terms, t) > 0 }

shared_term_score(i, t) ==
    IF t \in shared_terms(i)
    THEN ((occurrences(query_terms, t) * Scale) \div Len(query_terms)
          + (occurrences(appended[i], t) * Scale) \div Len(appended[i]))
         \div total_occurrences(appended, t, 1)
    ELSE 0

claimed_score(i) == shared_term_score(i, "q") + shared_term_score(i, "x")

RECURSIVE claimed_scores_from(_)
claimed_scores_from(i) ==
    IF i > Len(appended) THEN <<>>
    ELSE (IF shared_terms(i) # {} THEN << <<i, claimed_score(i)>> >> ELSE <<>>)
         \o claimed_scores_from(i + 1)

\* C22: search returns, in append order, exactly the documents that share a
\* term with the query, each with the sum over the shared terms of
\* (query normal + document normal) / global count; for the documents
\* [cat, dog] and [dog, dog] and the query dog both are returned with a
\* positive score and the second scores higher.
C22_SearchResult ==
    s_pc = "searched" =>
        /\ term_scores = claimed_scores_from(1)
        /\ \A k \in 1..Len(term_scores) : term_scores[k][2] > 0
        /\ (appended = << <<"x", "q">>, <<"q", "q">> >> /\ search_terms = <<"q">>) =>
              /\ Len(term_scores) = 2
              /\ term_scores[1][1] = 1 /\ term_scores[2][1] = 2
              /\ 0 < term_scores[1][2]
              /\ term_scores[1][2] < term_scores[2][2]

\* The two documents of the example and a third that shares no term with
\* the query dog: the first two are returned, the third is not.
C22_Witness ==
    /\ s_pc = "searched"
    /\ appended = << <<"x", "q">>, <<"q", "q">>, <<"x">> >>
    /\ search_terms = <<"q">>
    /\ Len(term_scores) = 2
    /\ term_scores[1][2] < term_scores[2][2]

\* The example of C22 as it stands, with two documents.
C22_ExampleReached ==
    /\ s_pc = "searched"
    /\ appended = << <<"x", "q">>, <<"q", "q">> >>
    /\ search_terms = <<"q">>
    /\ term_scores = << <<1, Scale \div 2>>, <<2, (2 * Scale) \div 3>> >>

\* The overall term counts after appending the given lists in the given
\* order.
RECURSIVE counts_after_appending(_, _, _)
counts_after_appending(lists, order, i) ==
    IF i > Len(order) THEN [t \in Terms |-> 0]
    ELSE overall_term_counts_after(counts_after_appending(lists, order, i + 1),
                                   lists[order[i]])

orders(n) == { f \in [1..n -> 1..n] : \A i, j \in 1..n : f[i] = f[j] => i = j }

CountsAreOccurrences ==
    /\ Len(documents) = Len(appended)
    /\ \A t \in Terms : overall_term_counts[t] = total_occurrences(appended, t, 1)
    /\ \A order \in orders(Len(appended)) :
          counts_after_appending(appended, order, 1) = overall_term_counts

\* C23: overall_term_counts[t] is the total number of occurrences of t in
\* the token lists of all appended documents, the same for every order of
\* appending them, and a search changes neither documents nor
\* overall_term_counts.
C23_OverallTermCounts ==
    /\ [](s_pc \in {"table", "searched"} => CountsAreOccurrences)
    /\ [][s_pc' = "searched" => UNCHANGED <<documents, overall_term_counts>>]_vars

\* Three documents with a repeated term have been appended in an order that
\* is not sorted, and a search has run on them.
C23_Witness ==
    /\ s_pc = "searched"
    /\ appended = << <<"q", "q">>, <<"x">>, <<"x", "q">> >>
    /\ overall_term_counts = [t \in Terms |-> IF t = "q" THEN 3 ELSE 2]
    /\ term_scores # <<>>

\* -------------------------------------------------- worker and file claims
\* The files the size test left out (they passed the extension test), the
\* result messages put for a file, and whether the worker is past the file.
Range(seq) == { seq[i] : i \in 1..Len(seq) }

size_skipped == Range(begun) \cap Range(skipped)

result_messages(f) ==
    { i \in 1..Len(sent) : sent[i].kind = "result" /\ sent[i].filepath = f }

past_file(f) == ~(wpc \in {"stat", "put"} /\ <<pathIdx, fileIdx>> = f)

\* C24: a file over max_file_size is not handed to _search_file and does
\* not count in files_searched; with show_warning_size_skip the worker puts
\* exactly one result message for it, holding exactly the entry of key 0,
\* and without the flag it puts no result message for it.
C24_SizeSkip ==
    /\ w_files_searched = Len(scanned)
    /\ \A f \in size_skipped :
          /\ f \notin Range(scanned)
          /\ \A i \in result_messages(f) : sent[i].result = {0}
          /\ Cardinality(result_messages(f)) <= 1
          /\ past_file(f) =>
                Cardinality(result_messages(f))
                = (IF settings.show_warning_size_skip THEN 1 ELSE 0)

\* With the flag set, the worker is past a file it skipped for its size and
\* past a file it searched.
C24_Witness ==
    /\ settings.show_warning_size_skip
    /\ \E f \in size_skipped : past_file(f) /\ Cardinality(result_messages(f)) = 1
    /\ w_files_searched = 1

\* Without the flag, the worker is past a file it skipped for its size.
C24_SilentSkipReached ==
    /\ ~settings.show_warning_size_skip
    /\ \E f \in size_skipped : past_file(f) /\ result_messages(f) = {}
    /\ Len(sent) > 0

\* The first line of the file with a null byte (0: none), and the attempt
\* that reached it.
first_nul(lines) ==
    IF \E i \in 1..Len(lines) : lines[i] = "nul"
    THEN CHOOSE i \in 1..Len(lines) : lines[i] = "nul" /\ \A j \in 1..(i - 1) : lines[j] # "nul"
    ELSE 0

\* C25: with skip_binary, when a line with a null byte is read, no later
\* line of the file is tested and the matches collected so far are
\* discarded: the mapping returned is exactly the placeholder of key 0 when
\* show_warning_binary_skip is set, and empty when it is not.
C25_BinarySkip ==
    (sf_pc = "binary") =>
        /\ sf_settings.skip_binary
        /\ sf_examined[Len(sf_examined)] = first_nul(sf_file.lines)
        /\ sf_ret = (IF sf_settings.show_warning_binary_skip THEN {0} ELSE {})

\* A file of a matching line followed by a line with a null byte, read with
\* the warning on: the match of line 1 is not returned, the placeholder is.
C25_Witness ==
    /\ sf_pc = "binary"
    /\ sf_file.lines = <<"hit", "nul">>
    /\ sf_settings.show_warning_binary_skip
    /\ sf_ret = {0}

\* The same file read with the warning off: nothing is returned.
C25_SilentReached ==
    /\ sf_pc = "binary"
    /\ sf_file.lines = <<"hit", "nul">>
    /\ ~sf_settings.show_warning_binary_skip
    /\ sf_ret = {}

\* With skip_binary, a file with a null byte never ends as a file read to
\* its end.
C25_NulNeverReadThrough ==
    (sf_pc = "read" /\ sf_settings.skip_binary) => first_nul(sf_file.lines) = 0

\* The steps of the call end with what search_file computes.
SearchFileStepsAgree ==
    sf_pc \in {"binary", "read", "failed"} => sf_ret = search_file(sf_settings, sf_file)

\* The lines of the file that contain the target string.
hit_lines(lines) == { i \in 1..Len(lines) : lines[i] = "hit" }

\* C27: the mapping _search_file returns holds only the matches found with
\* the first encoding that reads the whole file: after a whole read it is
\* the matching lines of that read, and when every encoding has failed it
\* holds no line match, only the open-failure placeholder of key 0 when
\* show_warning_on_open_fail is set.
C27_FirstWholeReadOnly ==
    /\ sf_pc = "read" => sf_ret = hit_lines(sf_file.lines)
    /\ sf_pc = "failed" =>
          sf_ret = (IF sf_settings.show_warning_on_open_fail THEN {0} ELSE {})

\* Every encoding has failed and the mapping returned holds a line match.
C27_StaleMatchReturned ==
    /\ sf_pc = "failed"
    /\ \A e \in 1..NumEncodings : sf_file.failAt[e] # 0
    /\ 1 \in sf_ret

\* The number of match lines (entries other than the placeholder of key 0)
\* the result buffer has been handed.
RECURSIVE match_lines_in(_)
match_lines_in(msgs) ==
    IF msgs = <<>> THEN 0
    ELSE Cardinality(Head(msgs).result \ {0}) + match_lines_in(Tail(msgs))

WithinLimit ==
    excessive_hits_count > 0 =>
        /\ match_lines_in(inserted) <= excessive_hits_count
        /\ num_hits > excessive_hits_count =>
              /\ stop_thread
              /\ search_cancelled
              /\ cpc = "finished"
              /\ cur \notin Range(inserted)

\* C26: with excessive_hits_count = T > 0 the match lines inserted into the
\* result buffer never number more than T: once num_hits exceeds T the
\* worker is stopped, search_cancelled is set, and neither the message that
\* crossed the threshold nor a later one is inserted; with T = 0 the search
\* is stopped only by the closed-view check, never for the hit count.
C26_InsertedWithinLimit ==
    /\ []WithinLimit
    /\ [][(excessive_hits_count = 0 /\ ~stop_thread /\ stop_thread') => cpc = "check"]_vars

\* More match lines than the limit are in the result buffer and the search
\* has not been stopped.
C26_LimitExceeded ==
    /\ excessive_hits_count > 0
    /\ match_lines_in(inserted) > excessive_hits_count
    /\ ~stop_thread
    /\ ~search_cancelled

\* The parts of C26 that do not count the inserted lines.
C26_StopOnCrossing ==
    excessive_hits_count > 0 /\ num_hits > excessive_hits_count =>
        stop_thread /\ search_cancelled /\ cpc = "finished" /\ cur \notin Range(inserted)

\* ------------------------------------------------------ _limit_line claims
\* The text _limit_line kept of the line, between the ellipsis markers.
kept_text == [i \in 1..(ll_end - ll_start) |-> ll_line[ll_start + i]]

\* The places (from 0) where the query occurs in a text, letter case
\* ignored.
occurrences_in(text) ==
    { q \in 0..(Len(text) - Len(ll_target_string)) :
        lower_str(SubSeq(text, q + 1, q + Len(ll_target_string))) = lower_str(ll_target_string) }

\* C28: for a matching line longer than max_line_len + len(query), whatever
\* the letter case of the query, the text _limit_line produces contains an
\* occurrence of the query (letter case ignored) with at most max_line_len/2
\* characters of the line kept on each side of it.
C28_MatchKept ==
    ll_pc = "limited" =>
        \E q \in occurrences_in(kept_text) :
            /\ q <= ll_max_line_len \div 2
            /\ Len(kept_text) - (q + Len(ll_target_string)) <= ll_max_line_len \div 2

\* A query in upper case: the limited line holds no occurrence of it.
C28_UpperCaseQueryLost ==
    /\ ll_pc = "limited"
    /\ ll_target_string = <<"A">>
    /\ occurrences_in(ll_line_content) = {}

\* A query in lower case at the end of a line without newline: the limited
\* line holds no occurrence of it.
C28_MatchAtEndLost ==
    /\ ll_pc = "limited"
    /\ ll_target_string = <<"a">>
    /\ ll_line[Len(ll_line)] = "a"
    /\ occurrences_in(ll_line_content) = {}

\* C28 for a query in lower case and a line that ends with a newline.
C28_LowerCaseQueryKept ==
    (ll_pc = "limited" /\ ll_target_string = lower_str(ll_target_string)
        /\ ll_line[Len(ll_line)] = "\n") =>
        \E q \in occurrences_in(kept_text) :
            /\ q <= ll_max_line_len \div 2
            /\ Len(kept_text) - (q + Len(ll_target_string)) <= ll_max_line_len \div 2

\* C29: _limit_line puts the ellipsis marker in front exactly when it has
\* removed at least one character from the start of the line, and at the
\* end exactly when it has removed at least one character from the end of
\* the line.
C29_EllipsisMarksRemoval ==
    ll_pc = "limited" =>
        /\ ll_line_content = (IF ll_start > 0 THEN <<ellipsis>> ELSE <<>>)
                             \o kept_text
                             \o (IF ll_end < Len(ll_line) THEN <<ellipsis>> ELSE <<>>)

\* The last character of a line without newline is removed and no marker
\* is appended.
C29_SilentlyCut ==
    /\ ll_pc = "limited"
    /\ ll_line[Len(ll_line)] # "\n"
    /\ ll_end = Len(ll_line) - 1
    /\ ll_line_content[Len(ll_line_content)] # ellipsis

\* The marker in front is exact: the limited line begins with the marker
\* and the kept text when characters are removed at the start, and with the
\* kept text when none is.
C29_PrefixExact ==
    ll_pc = "limited" =>
        LET front == (IF ll_start > 0 THEN <<ellipsis>> ELSE <<>>) \o kept_text
        IN  /\ Len(ll_line_content) >= Len(front)
            /\ SubSeq(ll_line_content, 1, Len(front)) = front
            /\ Len(ll_line_content) - Len(front) \in {0, 1}

\* ------------------------------------------------------- read_lines claims
\* C30: with skip_binary, the first line with a null byte ends the reading
\* of the file, whatever show_warning_binary_skip is: no line after it is
\* yielded.
C30_NoLineAfterNul ==
    rl_settings.skip_binary =>
        \A k \in 1..Len(rl_yielded) :
            \A j \in 1..(rl_yielded[k][2] - 1) : rl_file.lines[j] # "nul"

\* Without the warning, the line after a line with a null byte is yielded.
C30_LaterLineYielded ==
    /\ rl_settings.skip_binary
    /\ ~rl_settings.show_warning_binary_skip
    /\ rl_file.lines = <<"nul", "text">>
    /\ rl_yielded = << <<1, 2>> >>
    /\ rl_pc = "done"

\* With the warning, the reading ends at the first line with a null byte.
C30_WarnedReadingEnds ==
    (rl_settings.skip_binary /\ rl_settings.show_warning_binary_skip) =>
        /\ \A k \in 1..Len(rl_yielded) :
              \A j \in 1..(rl_yielded[k][2] - 1) : rl_file.lines[j] # "nul"
        /\ (rl_pc = "while" /\ rl_line_no > 0) => rl_file.lines[rl_line_no] # "nul"

\* ---------------------------------------------------- file binding claims
\* The scanned files, as named by scan_file.
scanned_files == 1..Len(documents)

\* C31: every scanned file is bound to a node of its own, so after the
\* combiner every file with a positive term score is a key of the rank
\* mapping and an element of the ranked candidate list.
C31_EveryFileBound ==
    /\ s_pc \in {"scanning", "ranking", "searching"} => scanned_files \subseteq bound_files
    /\ s_pc = "searching" =>
          \A f \in scored_files :
              /\ DictHas(rank_mappings, f)
              /\ \E i \in 1..Len(matching_files) : matching_files[i] = f

\* Two files of the same page name have been scanned and both get a term
\* score; the first is in neither the rank mapping nor the ranked list.
C31_FileLost ==
    /\ s_pc = "searching"
    /\ Len(documents) = 2
    /\ scored_files = {1, 2}
    /\ ~DictHas(rank_mappings, 1)
    /\ matching_files = <<2>>

\* ------------------------------------------------------------ restart claims
\* Every message a call of display_search_results has taken came from the
\* queue of the search that started the call.
TakenFromOwnQueue == \A i \in 1..Len(taken) : taken[i][1] = taken[i][2]

\* C32: when searches are started one after another, every worker started
\* terminates in the end, and every consumer loop takes messages only from
\* the queue of its own session.
C32_RestartIsClean ==
    /\ []TakenFromOwnQueue
    /\ \A t \in 1..MaxSessions : [](Len(threads) >= t => <>(Len(threads) >= t /\ ~isAlive(t)))

\* The first worker waits in join for a queue nobody reads any more: the
\* loops have ended and its queue still has unfinished tasks.
C32_WorkerLeftBlocked ==
    /\ Len(threads) = MaxSessions
    /\ threads[1].pc = "join"
    /\ queues[1].unfinished_tasks > 0
    /\ cur_queue # 1
    /\ \A k \in 1..Len(display_loops) : Ended(k)

\* A search that no later search follows is served: its worker terminates.
C32_LoneSearchCompletes ==
    <>(Len(queues) > 1) \/ [](Len(threads) >= 1 => <>(Len(threads) >= 1 /\ ~isAlive(1)))


\* --------------------------------------------------------- line-once claims
\* C33: read_lines yields each line of a file at most once, also when an
\* encoding fails part-way through the file and a later encoding is tried.
C33_EachLineOnce ==
    \A i, j \in 1..Len(rl_yielded) :
        i # j => rl_yielded[i][2] # rl_yielded[j][2]

\* The first encoding fails at the second line, after line 1 was yielded;
\* the second encoding reads the file from its start and yields line 1 again.
C33_LineYieldedTwice ==
    /\ rl_pc = "done"
    /\ rl_file.failAt[1] = 2
    /\ rl_yielded = << <<1, 1>>, <<2, 1>>, <<2, 2>> >>

\* When every encoding that fails does so before its first line is yielded,
\* no line is yielded twice.
C33_OnceWhenFailingAtStart ==
    (\A e \in 1..NumEncodings : rl_file.failAt[e] \in {0, 1}) => C33_EachLineOnce


\* ------------------------------------------------------- link-count claims
\* The nodes of graph g in heap H, in list order.
nodes_of(H, g) == [i \in 1..GraphLen(H, g) |-> H.objs[H.lists[g.node_list][i]]]

\* The number of nodes of g whose in_links contain index.
in_link_count(H, g, index) ==
    Cardinality({j \in 1..GraphLen(H, g) : index \in nodes_of(H, g)[j].in_links})

\* Each node's out_counts is the number of nodes whose in_links contain its
\* index, and every index in an in_links set is in [0, len(graph)).
links_agree(H, g) ==
    \A i \in 1..GraphLen(H, g) :
        /\ nodes_of(H, g)[i].out_counts = in_link_count(H, g, nodes_of(H, g)[i].index)
        /\ nodes_of(H, g)[i].in_links \subseteq 0..(GraphLen(H, g) - 1)

\* C34: in every state of a Graph reached by its construction operations,
\* and also after PageRank's sink handling, each node's out_counts equals
\* the number of nodes whose in_links contain that node's index, and every
\* index in any in_links set is a valid node index in [0, len(graph)).
C34_LinkCountsAgree ==
    /\ links_agree(Heap, graph)
    /\ pr_pc # "none" => links_agree(Heap, pr_graph)

\* After the sink handling of a full graph: a former sink counts every
\* node, and another node has two out-links of its own.
C34_Witness ==
    /\ pr_pc = "built"
    /\ GraphLen(Heap, pr_graph) = MaxNodes
    /\ \E i \in 1..MaxNodes :
          /\ before[pr_nodes[i]].out_counts = 0
          /\ node_objs[pr_nodes[i]].out_counts = MaxNodes
    /\ \E i \in 1..MaxNodes : before[pr_nodes[i]].out_counts = 2

\* The agreement is kept by construction calls made on the graph after a
\* PageRank was built on it.
C34_KeptByLaterCalls ==
    pr_pc # "none" =>
        \A s, t \in 1..(MaxNodes + 1) :
            /\ links_agree(add_link(Heap, graph, s, t).heap, graph)
            /\ links_agree(add_node_with_refs(Heap, graph, s, <<t>>), graph)
            /\ links_agree(add_links(Heap, graph, << <<s, t>> >>).heap, graph)
            /\ links_agree(apply_sink_linking(add_node_with_refs(Heap, graph, s, <<t>>),
                                              copy_copy(graph)), graph)

====
